---- MODULE Spec2Model ----
(***************************************************************************)
(* Matching engine of job_screening_ai: MatcherAgent                      *)
(* (src/job_screening_ai/agents/matcher.py) scoring one candidate against *)
(* one job.                                                               *)
(*                                                                         *)
(* Text is modelled at two grains.  Free text that the code scans with    *)
(* regular expressions or substring tests (experience requirement,        *)
(* duration, dates, degrees, the advisor's reply) is a sequence of        *)
(* one-character strings.  A skill is the sequence of words that nltk's   *)
(* word_tokenize splits it into; lower-casing, stop-word removal and      *)
(* lemmatization are applied word by word.                                *)
(*                                                                         *)
(* Python floats are modelled as exact rationals [num, den] in lowest     *)
(* terms.                                                                 *)
(***************************************************************************)
EXTENDS Integers, Sequences, FiniteSets, TLC

VARIABLES
    pc,         \* position of the match_candidate_to_job call
    job,        \* its JobDescription argument
    candidate,  \* its CandidateProfile argument
    scores,     \* its locals skill_score, matched_skills, experience_score, education_score
    advisor,    \* what requests.post gave the blocked call, once it gave anything
    result,     \* the MatchResult returned, or the exception raised
    agent,      \* the MatcherAgent: ollama_url and api_endpoint, set by __init__
    batch,      \* one job's candidates being matched side by side, then shortlisted
    session,    \* the agents of a process serving one call after another
    db,         \* the tables of the SQLite database
    call,       \* a direct call of one of the agent's scoring methods
    ret         \* and what that call returned

vars == <<pc, job, candidate, scores, advisor, result, agent, batch, session, db, call, ret>>

matcherVars == <<pc, job, candidate, scores, advisor, result, agent>>

serviceVars == <<session, db>>

unitVars == <<call, ret>>

\* Python's None, for the Optional[str] ids; no id string of the pools equals it.
None == "None"

(***************************************************************************)
(* Sequences and sets                                                     *)
(***************************************************************************)
SeqUpTo(S, n) == UNION {[1..k -> S] : k \in 0..n}

Min(S) == CHOOSE x \in S : \A y \in S : x <= y

Max(S) == CHOOSE x \in S : \A y \in S : x >= y

\* Python's `x in xs` for a list.
InList(x, xs) == \E i \in 1..Len(xs) : xs[i] = x

\* Python's `sub in s` for strings.
Contains(s, sub) ==
    \E i \in 1..(Len(s) - Len(sub) + 1) : SubSeq(s, i, i + Len(sub) - 1) = sub

(***************************************************************************)
(* Floats as rationals                                                    *)
(***************************************************************************)
RECURSIVE GCD(_, _)
GCD(a, b) == IF b = 0 THEN a ELSE GCD(b, a % b)

Rat(n, d) ==
    LET g == GCD(n, d) IN [num |-> n \div g, den |-> d \div g]

RatInt(n) == [num |-> n, den |-> 1]

RatAdd(a, b) == Rat(a.num * b.den + b.num * a.den, a.den * b.den)

RatMul(a, b) == Rat(a.num * b.num, a.den * b.den)

RatLeq(a, b) == a.num * b.den <= b.num * a.den

RatMax(a, b) == IF RatLeq(a, b) THEN b ELSE a

RatMin(a, b) == IF RatLeq(a, b) THEN a ELSE b

(***************************************************************************)
(* Characters                                                             *)
(***************************************************************************)
Digits == {"0", "1", "2", "3", "4", "5", "6", "7", "8", "9"}

DigitVal(c) ==
    CASE c = "0" -> 0 [] c = "1" -> 1 [] c = "2" -> 2 [] c = "3" -> 3
      [] c = "4" -> 4 [] c = "5" -> 5 [] c = "6" -> 6 [] c = "7" -> 7
      [] c = "8" -> 8 [] c = "9" -> 9

\* int() of a string of digits.
RECURSIVE ToInt(_)
ToInt(ds) ==
    IF Len(ds) = 0 THEN 0
    ELSE 10 * ToInt(SubSeq(ds, 1, Len(ds) - 1)) + DigitVal(ds[Len(ds)])

\* str.lower(), character by character.
LowerChar(c) ==
    CASE c = "A" -> "a" [] c = "B" -> "b" [] c = "C" -> "c" [] c = "D" -> "d"
      [] c = "E" -> "e" [] c = "F" -> "f" [] c = "G" -> "g" [] c = "H" -> "h"
      [] c = "I" -> "i" [] c = "J" -> "j" [] c = "K" -> "k" [] c = "L" -> "l"
      [] c = "M" -> "m" [] c = "N" -> "n" [] c = "O" -> "o" [] c = "P" -> "p"
      [] c = "Q" -> "q" [] c = "R" -> "r" [] c = "S" -> "s" [] c = "T" -> "t"
      [] c = "U" -> "u" [] c = "V" -> "v" [] c = "W" -> "w" [] c = "X" -> "x"
      [] c = "Y" -> "y" [] c = "Z" -> "z"
      [] OTHER -> c

LowerStr(s) == [i \in 1..Len(s) |-> LowerChar(s[i])]

(***************************************************************************)
(* Experience Matcher: matcher.py, _calculate_experience_match            *)
(***************************************************************************)
\* (?:years?|yrs?) at position q: "year" or "yr"; the optional s never decides.
UnitAt(s, q) ==
    \/ q + 3 <= Len(s) /\ SubSeq(s, q, q + 3) = <<"y", "e", "a", "r">>
    \/ q + 1 <= Len(s) /\ SubSeq(s, q, q + 1) = <<"y", "r">>

\* [\+]?\s*(?:years?|yrs?) from position p on.
TailAt(s, p) ==
    \E plus \in {0, 1} :
        /\ plus = 1 => (p <= Len(s) /\ s[p] = "+")
        /\ \E q \in (p + plus)..(Len(s) + 1) :
              /\ \A k \in (p + plus)..(q - 1) : s[k] = " "
              /\ UnitAt(s, q)

\* The ends j of a (\d+) group starting at i that let the rest of the pattern match.
GroupEnds(s, i) ==
    {j \in i..Len(s) : (\A k \in i..j : s[k] \in Digits) /\ TailAt(s, j + 1)}

\* re.search(years_pattern, s): <<>> when nothing matches, else <<int(group(1))>>
\* of the leftmost match, its group as long as the pattern allows.
years_pattern(s) ==
    LET starts == {i \in 1..Len(s) : GroupEnds(s, i) # {}}
    IN  IF starts = {} THEN <<>>
        ELSE LET i == Min(starts)
                 j == Max(GroupEnds(s, i))
             IN  <<ToInt(SubSeq(s, i, j))>>

\* re.search(r'(\d{4})', s): the first four consecutive digits.
FourDigits(s) ==
    LET starts == {i \in 1..(Len(s) - 3) : \A k \in i..(i + 3) : s[k] \in Digits}
    IN  IF starts = {} THEN <<>>
        ELSE <<ToInt(SubSeq(s, Min(starts), Min(starts) + 3))>>

\* The end year the code substitutes when end_date gives none (matcher.py:124).
SubstituteEndYear == 2023

\* Mutant: the duration is never consulted, only the dates.
EntryYearsDatesOnly(exp) ==
    LET start_year_match == FourDigits(exp.start_date)
        end == LowerStr(exp.end_date)
        end_year_match ==
            IF ~Contains(end, <<"p", "r", "e", "s", "e", "n", "t">>)
            THEN FourDigits(end) ELSE <<>>
    IN  IF Len(start_year_match) > 0
        THEN (IF Len(end_year_match) > 0 THEN end_year_match[1] ELSE SubstituteEndYear)
             - start_year_match[1]
        ELSE 0

\* Mutant: an entry counts as ongoing only when its end_date says "present"; any
\* other end_date without a year makes the entry add nothing.
EntryYearsOngoingOnlyIfPresent(exp) ==
    LET years_match == years_pattern(LowerStr(exp.duration))
        start_year_match == FourDigits(exp.start_date)
        end == LowerStr(exp.end_date)
        present == Contains(end, <<"p", "r", "e", "s", "e", "n", "t">>)
        end_year_match == IF ~present THEN FourDigits(end) ELSE <<>>
    IN  IF Len(years_match) > 0 THEN years_match[1]
        ELSE IF Len(start_year_match) > 0 /\ (present \/ Len(end_year_match) > 0)
        THEN (IF Len(end_year_match) > 0 THEN end_year_match[1] ELSE SubstituteEndYear)
             - start_year_match[1]
        ELSE 0

\* One pass of the loop body: what the entry adds to total_candidate_years.
EntryYears(exp) ==
    LET years_match == years_pattern(LowerStr(exp.duration))
        start_year_match == FourDigits(exp.start_date)
        end == LowerStr(exp.end_date)
        end_year_match ==
            IF ~Contains(end, <<"p", "r", "e", "s", "e", "n", "t">>)
            THEN FourDigits(end) ELSE <<>>
    IN  IF Len(years_match) > 0 THEN years_match[1]
        ELSE IF Len(start_year_match) > 0
        THEN (IF Len(end_year_match) > 0 THEN end_year_match[1] ELSE SubstituteEndYear)
             - start_year_match[1]
        ELSE 0

\* The loop over candidate_experiences, accumulating from 0 in list order.
RECURSIVE TotalCandidateYears(_)
TotalCandidateYears(candidate_experiences) ==
    IF Len(candidate_experiences) = 0 THEN 0
    ELSE TotalCandidateYears(SubSeq(candidate_experiences, 1, Len(candidate_experiences) - 1))
         + EntryYears(candidate_experiences[Len(candidate_experiences)])

\* Mutant: the bands compare with > where the code compares with >=.
ExperienceBandStrict(total_candidate_years, required_years) ==
    LET need(f) == RatMul(RatInt(required_years), f)
        got == RatInt(total_candidate_years)
        above(f) == ~RatLeq(got, need(f))
    IN  IF total_candidate_years > required_years THEN 100
        ELSE IF above(Rat(4, 5)) THEN 90
        ELSE IF above(Rat(3, 5)) THEN 70
        ELSE IF above(Rat(2, 5)) THEN 50
        ELSE 30

\* The if/elif chain; required_years * 0.8, * 0.6 and * 0.4 are taken exactly.
ExperienceBand(total_candidate_years, required_years) ==
    LET need(f) == RatMul(RatInt(required_years), f)
        got == RatInt(total_candidate_years)
    IN  IF total_candidate_years >= required_years THEN 100
        ELSE IF RatLeq(need(Rat(4, 5)), got) THEN 90
        ELSE IF RatLeq(need(Rat(3, 5)), got) THEN 70
        ELSE IF RatLeq(need(Rat(2, 5)), got) THEN 50
        ELSE 30

\* The value of a local that a return left unassigned.
Unset == <<>>

\* Mutant: an empty requirement falls through to the unparseable default.
ExperienceFrameNoEmptyCheck(required_experience, candidate_experiences) ==
    LET required_years_match == years_pattern(LowerStr(required_experience))
        total_candidate_years == TotalCandidateYears(candidate_experiences)
    IN  IF Len(required_years_match) = 0
        THEN [returned |-> RatInt(80), required_years |-> Unset,
              total_candidate_years |-> Unset]
        ELSE [returned |-> RatInt(ExperienceBand(total_candidate_years,
                                                 required_years_match[1])),
              required_years |-> <<required_years_match[1]>>,
              total_candidate_years |-> <<total_candidate_years>>]

\* Mutant: a requirement without a year figure is scored as one of 0 years.
ExperienceFrameUnparsedAsZero(required_experience, candidate_experiences) ==
    IF Len(required_experience) = 0
    THEN [returned |-> RatInt(100), required_years |-> Unset,
          total_candidate_years |-> Unset]
    ELSE LET required_years_match == years_pattern(LowerStr(required_experience))
             required_years ==
                 IF Len(required_years_match) = 0 THEN 0 ELSE required_years_match[1]
             total_candidate_years == TotalCandidateYears(candidate_experiences)
         IN  [returned |-> RatInt(ExperienceBand(total_candidate_years, required_years)),
              required_years |-> <<required_years>>,
              total_candidate_years |-> <<total_candidate_years>>]

\* _calculate_experience_match at its return: the value returned and the locals
\* required_years and total_candidate_years, each <<v>> once assigned.
ExperienceFrame(required_experience, candidate_experiences) ==
    IF Len(required_experience) = 0
    THEN [returned |-> RatInt(100), required_years |-> Unset,
          total_candidate_years |-> Unset]
    ELSE LET required_years_match == years_pattern(LowerStr(required_experience))
             total_candidate_years == TotalCandidateYears(candidate_experiences)
         IN  IF Len(required_years_match) = 0
             THEN [returned |-> RatInt(80), required_years |-> Unset,
                   total_candidate_years |-> Unset]
             ELSE [returned |-> RatInt(ExperienceBand(total_candidate_years,
                                                      required_years_match[1])),
                   required_years |-> <<required_years_match[1]>>,
                   total_candidate_years |-> <<total_candidate_years>>]

_calculate_experience_match(required_experience, candidate_experiences) ==
    ExperienceFrame(required_experience, candidate_experiences).returned

(***************************************************************************)
(* Education Matcher: matcher.py, _calculate_education_match              *)
(***************************************************************************)
\* The education_levels dict: label and ordinal level.
education_levels ==
    { [label |-> <<"h", "i", "g", "h", " ", "s", "c", "h", "o", "o", "l">>, value |-> 1],
      [label |-> <<"a", "s", "s", "o", "c", "i", "a", "t", "e">>, value |-> 2],
      [label |-> <<"b", "a", "c", "h", "e", "l", "o", "r">>, value |-> 3],
      [label |-> <<"m", "a", "s", "t", "e", "r">>, value |-> 4],
      [label |-> <<"p", "h", "d">>, value |-> 5],
      [label |-> <<"d", "o", "c", "t", "o", "r", "a", "t", "e">>, value |-> 5] }

\* Mutant: the labels are looked for in the text as written, not lower-cased.
HighestLevelCaseSensitive(texts) ==
    Max({0} \cup {l.value : l \in {m \in education_levels :
                      \E i \in 1..Len(texts) : Contains(texts[i], m.label)}})

\* The two scanning loops: the largest value whose label occurs in the lower-cased
\* text of any of the strings, from 0.
HighestLevel(texts) ==
    Max({0} \cup {l.value : l \in {m \in education_levels :
                      \E i \in 1..Len(texts) : Contains(LowerStr(texts[i]), m.label)}})

\* Mutant: a candidate without a recognised degree scores 0 against any requirement.
EducationBandUnrecognisedZero(candidate_level, required_level) ==
    IF candidate_level = 0 THEN 0
    ELSE IF candidate_level >= required_level THEN 100
    ELSE IF candidate_level = required_level - 1 THEN 80
    ELSE IF candidate_level = required_level - 2 THEN 60
    ELSE 40

\* The if/elif chain over the two levels.
EducationBand(candidate_level, required_level) ==
    IF candidate_level >= required_level THEN 100
    ELSE IF candidate_level = required_level - 1 THEN 80
    ELSE IF candidate_level = required_level - 2 THEN 60
    ELSE 40

\* The level assumed when no label occurs in the requirement (matcher.py:164).
DefaultRequiredLevel == 3

\* candidate_education is the list of the entries' degree fields.
_calculate_education_match(required_education, candidate_education) ==
    IF Len(required_education) = 0 THEN RatInt(100)
    ELSE LET found == HighestLevel(required_education)
             required_level == IF found = 0 THEN DefaultRequiredLevel ELSE found
             candidate_level ==
                 HighestLevel([i \in 1..Len(candidate_education) |->
                                  candidate_education[i].degree])
         IN  RatInt(EducationBand(candidate_level, required_level))

(***************************************************************************)
(* Text Normalizer and Skill Matcher: matcher.py, _preprocess_text and    *)
(* _calculate_skill_match                                                 *)
(***************************************************************************)
\* text.lower(), word by word.
LowerWord(w) ==
    CASE w = "Python" -> "python" [] w = "REST" -> "rest" [] w = "The" -> "the"
      [] OTHER -> w

\* The members of stopwords.words('english') among the words of the pools.
stop_words == {"the", "of", "and"}

\* The one-character tokens of string.punctuation among the words of the pools.
punctuation == {".", ",", "/"}

\* WordNetLemmatizer.lemmatize on the words of the pools: plural nouns to singular.
lemmatize(token) ==
    CASE token = "databases" -> "database" [] token = "services" -> "service"
      [] OTHER -> token

_preprocess_text(text) ==
    LET lowered == [i \in 1..Len(text) |-> LowerWord(text[i])]
        keep(token) == token \notin punctuation /\ token \notin stop_words
        kept == SelectSeq(lowered, keep)
    IN  [i \in 1..Len(kept) |-> lemmatize(kept[i])]

\* Mutant: only the first half of the containment test (job tokens in candidate tokens).
SkillContainedOneWay(job_skill, candidate_skill) ==
    LET job_skill_tokens == _preprocess_text(job_skill)
        candidate_skill_tokens == _preprocess_text(candidate_skill)
    IN  \A i \in 1..Len(job_skill_tokens) :
            InList(job_skill_tokens[i], candidate_skill_tokens)

\* The condition of lines 83-84: all(...) or all(...).
\* Mutant: a skill without tokens is contained in nothing and contains nothing.
SkillContainedNonEmpty(job_skill, candidate_skill) ==
    LET job_skill_tokens == _preprocess_text(job_skill)
        candidate_skill_tokens == _preprocess_text(candidate_skill)
    IN  /\ job_skill_tokens # <<>>
        /\ candidate_skill_tokens # <<>>
        /\ \/ \A i \in 1..Len(job_skill_tokens) :
                  InList(job_skill_tokens[i], candidate_skill_tokens)
           \/ \A i \in 1..Len(candidate_skill_tokens) :
                  InList(candidate_skill_tokens[i], job_skill_tokens)

SkillContained(job_skill, candidate_skill) ==
    LET job_skill_tokens == _preprocess_text(job_skill)
        candidate_skill_tokens == _preprocess_text(candidate_skill)
    IN  \/ \A i \in 1..Len(job_skill_tokens) :
              InList(job_skill_tokens[i], candidate_skill_tokens)
        \/ \A i \in 1..Len(candidate_skill_tokens) :
              InList(candidate_skill_tokens[i], job_skill_tokens)

\* The inner loop from candidate skill k on: TRUE when it appends and breaks.
RECURSIVE ScanCandidateSkills(_, _, _)
ScanCandidateSkills(job_skill, candidate_skills, k) ==
    IF k > Len(candidate_skills) THEN FALSE
    ELSE IF SkillContained(job_skill, candidate_skills[k]) THEN TRUE
    ELSE ScanCandidateSkills(job_skill, candidate_skills, k + 1)

\* The outer loop from job skill n on, with matched_skills as accumulated so far.
RECURSIVE MatchLoop(_, _, _, _)
MatchLoop(job_skills, candidate_skills, n, matched_skills) ==
    IF n > Len(job_skills) THEN matched_skills
    ELSE MatchLoop(job_skills, candidate_skills, n + 1,
                   IF ScanCandidateSkills(job_skills[n], candidate_skills, 1)
                   THEN Append(matched_skills, job_skills[n])
                   ELSE matched_skills)

\* Mutant: no early return for an empty job skill list; the score of nothing is 0.
_calculate_skill_match_no_empty_check(job_skills, candidate_skills) ==
    LET matched_skills == MatchLoop(job_skills, candidate_skills, 1, <<>>)
    IN  [score |-> IF Len(job_skills) = 0 THEN RatInt(0)
                   ELSE RatMul(Rat(Len(matched_skills), Len(job_skills)), RatInt(100)),
         matched |-> matched_skills]

\* Returns the tuple (match_score, matched_skills).
_calculate_skill_match(job_skills, candidate_skills) ==
    IF Len(job_skills) = 0 THEN [score |-> RatInt(100), matched |-> <<>>]
    ELSE LET matched_skills == MatchLoop(job_skills, candidate_skills, 1, <<>>)
         IN  [score |-> RatMul(Rat(Len(matched_skills), Len(job_skills)), RatInt(100)),
              matched |-> matched_skills]

(***************************************************************************)
(* Inputs of the direct calls                                             *)
(***************************************************************************)
MaxSkills == 2

MaxEntries == 2

MaxEducation == 2

\* Skills, as word_tokenize splits them.
Skill_Python == <<"Python">>

Skill_python_programming == <<"python", "programming">>

Skill_REST_databases == <<"REST", "databases">>

Skill_database == <<"database">>

Skill_the_dot == <<"The", ".">>

\* The empty string as a skill.
Skill_empty == <<>>

SkillPool ==
    {Skill_Python, Skill_python_programming, Skill_REST_databases, Skill_database,
     Skill_the_dot, Skill_empty}

\* Experience requirements.
Req_empty == <<>>

Req_5plus_years == <<"5", "+", " ", "y", "e", "a", "r", "s">>

Req_5_Years == <<"5", " ", "Y", "e", "a", "r", "s">>

Req_10_yrs == <<"1", "0", " ", "y", "r", "s">>

Req_2years == <<"2", "y", "e", "a", "r", "s">>

Req_0_years == <<"0", " ", "y", "e", "a", "r", "s">>

Req_3_to_5_years == <<"3", "-", "5", " ", "y", "e", "a", "r", "s">>

Req_senior == <<"s", "e", "n", "i", "o", "r">>

Req_five_years == <<"f", "i", "v", "e", " ", "y", "e", "a", "r", "s">>

Req_18_months == <<"1", "8", " ", "m", "o", "n", "t", "h", "s">>

RequiredExperiencePool ==
    {Req_empty, Req_5plus_years, Req_5_Years, Req_10_yrs, Req_2years, Req_0_years,
     Req_3_to_5_years, Req_senior, Req_five_years, Req_18_months}

\* Experience entries: the three fields of CandidateExperience the matcher reads.
Entry(duration, start_date, end_date) ==
    [duration |-> duration, start_date |-> start_date, end_date |-> end_date]

Exp_3years_2020_Present == Entry(<<"3", " ", "y", "e", "a", "r", "s">>, <<"0", "3", "/", "2", "0", "2", "0">>, <<"P", "r", "e", "s", "e", "n", "t">>)

Exp_2016_2020 == Entry(<<>>, <<"0", "6", "/", "2", "0", "1", "6">>, <<"0", "2", "/", "2", "0", "2", "0">>)

Exp_2021_Present == Entry(<<>>, <<"2", "0", "2", "1">>, <<"P", "r", "e", "s", "e", "n", "t">>)

Exp_blank == Entry(<<>>, <<>>, <<>>)

Exp_2plus_Yrs == Entry(<<"2", "+", " ", "Y", "r", "s">>, <<>>, <<>>)

Exp_2021_open == Entry(<<>>, <<"2", "0", "2", "1">>, <<>>)

Exp_2021_2016 == Entry(<<>>, <<"2", "0", "2", "1">>, <<"0", "6", "/", "2", "0", "1", "6">>)

Exp_1year_2016_2020 == Entry(<<"1", " ", "y", "e", "a", "r">>, <<"0", "6", "/", "2", "0", "1", "6">>, <<"0", "2", "/", "2", "0", "2", "0">>)

Exp_end_only_2020 == Entry(<<>>, <<>>, <<"0", "2", "/", "2", "0", "2", "0">>)

Exp_6months_2021_2022 == Entry(<<"6", " ", "m", "o", "n", "t", "h", "s">>, <<"2", "0", "2", "1">>, <<"2", "0", "2", "2">>)

Exp_2020_ongoing == Entry(<<>>, <<"2", "0", "2", "0">>, <<"o", "n", "g", "o", "i", "n", "g">>)

Exp_2019_till_PRESENT == Entry(<<>>, <<"2", "0", "1", "9">>, <<"t", "i", "l", "l", " ", "P", "R", "E", "S", "E", "N", "T">>)

ExperiencePool ==
    {Exp_3years_2020_Present, Exp_2016_2020, Exp_2021_Present, Exp_blank, Exp_2plus_Yrs,
     Exp_2021_open, Exp_2021_2016, Exp_1year_2016_2020, Exp_end_only_2020,
     Exp_6months_2021_2022, Exp_2019_till_PRESENT, Exp_2020_ongoing}

\* The calendar years in which a call may be made.
CalendarYears == {2023, 2024, 2026}

\* Education requirements.
Edu_Bachelors_degree == <<"B", "a", "c", "h", "e", "l", "o", "r", "'", "s", " ", "d", "e", "g", "r", "e", "e">>

Edu_Master_or_PhD == <<"M", "a", "s", "t", "e", "r", " ", "o", "r", " ", "P", "h", "D">>

Edu_High_School == <<"H", "i", "g", "h", " ", "S", "c", "h", "o", "o", "l">>

Edu_Associate == <<"A", "s", "s", "o", "c", "i", "a", "t", "e">>

Edu_degree == <<"d", "e", "g", "r", "e", "e">>

Edu_Doctorate == <<"D", "o", "c", "t", "o", "r", "a", "t", "e">>

RequiredEducationPool ==
    {Edu_Bachelors_degree, Edu_Master_or_PhD, Edu_High_School, Edu_Associate, Edu_degree,
     Edu_Doctorate}

\* Education entries: the degree field of CandidateEducation.
Deg_Bachelor_of_Science == [degree |-> <<"B", "a", "c", "h", "e", "l", "o", "r", " ", "o", "f", " ", "S", "c", "i", "e", "n", "c", "e">>]

Deg_MASTER == [degree |-> <<"M", "A", "S", "T", "E", "R">>]

Deg_PhD == [degree |-> <<"P", "h", "D">>]

Deg_Diploma == [degree |-> <<"D", "i", "p", "l", "o", "m", "a">>]

Deg_High_school == [degree |-> <<"H", "i", "g", "h", " ", "s", "c", "h", "o", "o", "l">>]

Deg_Associate_degree == [degree |-> <<"A", "s", "s", "o", "c", "i", "a", "t", "e", " ", "d", "e", "g", "r", "e", "e">>]

DegreePool ==
    {Deg_Bachelor_of_Science, Deg_MASTER, Deg_PhD, Deg_Diploma, Deg_High_school,
     Deg_Associate_degree}

(***************************************************************************)
(* Direct calls of the three scoring methods                              *)
(***************************************************************************)
NoCall == [op |-> "none"]

\* A variable that holds nothing yet: no argument bound, no local assigned, nothing
\* returned.
Nothing == [type |-> "nothing"]

\* The default of __init__'s ollama_url parameter.
DefaultOllamaUrl == <<"h", "t", "t", "p", ":", "/", "/", "l", "o", "c", "a", "l", "h", "o", "s", "t", ":", "1", "1", "4", "3", "4">>

\* The URLs an agent is constructed with: none passed (the default applies, as in
\* api/main.py and in __main__), or an empty string.
OllamaUrls == {DefaultOllamaUrl, <<>>}

\* MatcherAgent.__init__ (the lemmatizer and stop words are stop_words, lemmatize).
MatcherAgent(ollama_url) ==
    [ollama_url |-> ollama_url, api_endpoint |-> ollama_url \o <<"/", "a", "p", "i", "/", "g", "e", "n", "e", "r", "a", "t", "e">>]

\* requests.post prepares the URL before it connects: one without a scheme raises
\* MissingSchema and nothing is sent.
HasScheme(url) == Contains(url, <<":", "/", "/">>)

MatcherIdle ==
    /\ agent \in {MatcherAgent(ollama_url) : ollama_url \in OllamaUrls}
    /\ pc = "idle"
    /\ job = Nothing
    /\ candidate = Nothing
    /\ scores = Nothing
    /\ advisor = Nothing
    /\ result = Nothing

CallSkillMatch ==
    /\ call = NoCall
    /\ \E job_skills \in SeqUpTo(SkillPool, MaxSkills),
          candidate_skills \in SeqUpTo(SkillPool, MaxSkills) :
          /\ call' = [op |-> "_calculate_skill_match", job_skills |-> job_skills,
                      candidate_skills |-> candidate_skills]
          /\ ret' = _calculate_skill_match(job_skills, candidate_skills)
    /\ UNCHANGED <<matcherVars, batch, serviceVars>>

CallExperienceMatch ==
    /\ call = NoCall
    /\ \E required_experience \in RequiredExperiencePool,
          candidate_experiences \in SeqUpTo(ExperiencePool, MaxEntries),
          current_year \in CalendarYears :
          /\ call' = [op |-> "_calculate_experience_match",
                      required_experience |-> required_experience,
                      candidate_experiences |-> candidate_experiences,
                      current_year |-> current_year]
          /\ ret' = ExperienceFrame(required_experience, candidate_experiences)
    /\ UNCHANGED <<matcherVars, batch, serviceVars>>

CallEducationMatch ==
    /\ call = NoCall
    /\ \E required_education \in SeqUpTo(RequiredEducationPool, MaxEducation),
          candidate_education \in SeqUpTo(DegreePool, MaxEducation) :
          /\ call' = [op |-> "_calculate_education_match",
                      required_education |-> required_education,
                      candidate_education |-> candidate_education]
          /\ ret' = [returned |->
                        _calculate_education_match(required_education, candidate_education)]
    /\ UNCHANGED <<matcherVars, batch, serviceVars>>

\* No batch is being matched.
NoBatch == [phase |-> "none"]

\* No agent has served a call yet.
NoSession == [phase |-> "none"]

\* _create_tables: the tables exist and hold no rows; no match_id was given out.
EmptyDatabase ==
    [job_descriptions |-> {}, candidates |-> {}, matches |-> {}, emails |-> {},
     last_match_id |-> 0]

Init ==
    /\ MatcherIdle
    /\ batch = NoBatch
    /\ session = NoSession
    /\ db = EmptyDatabase
    /\ call = NoCall
    /\ ret = Nothing

NextUnits == CallSkillMatch \/ CallExperienceMatch \/ CallEducationMatch

SpecUnits == Init /\ [][NextUnits]_vars

(***************************************************************************)
(* Score Combiner: matcher.py, _calculate_weighted_average and            *)
(* _use_llm_for_final_evaluation                                          *)
(***************************************************************************)
_calculate_weighted_average(skill_score, experience_score, education_score) ==
    RatAdd(RatAdd(RatMul(skill_score, Rat(1, 2)), RatMul(experience_score, Rat(3, 10))),
           RatMul(education_score, Rat(1, 5)))

\* The end of the run of digits that starts at position i (i - 1 when there is none).
RECURSIVE DigitRunEnd(_, _)
DigitRunEnd(s, i) ==
    IF i <= Len(s) /\ s[i] \in Digits THEN DigitRunEnd(s, i + 1) ELSE i - 1

RECURSIVE Pow10(_)
Pow10(n) == IF n = 0 THEN 1 ELSE 10 * Pow10(n - 1)

\* Mutant: only the digits before the decimal point are read.
FirstNumberIntegerPart(s) ==
    LET starts == {i \in 1..Len(s) : s[i] \in Digits}
    IN  IF starts = {} THEN <<>>
        ELSE LET i == Min(starts)
             IN  <<RatInt(ToInt(SubSeq(s, i, DigitRunEnd(s, i))))>>

\* re.search(r'(\d+\.?\d*)', s) and float(group(1)): <<>> when s holds no digit.
FirstNumber(s) ==
    LET starts == {i \in 1..Len(s) : s[i] \in Digits}
    IN  IF starts = {} THEN <<>>
        ELSE LET i == Min(starts)
                 j == DigitRunEnd(s, i)
                 dot == j + 1 <= Len(s) /\ s[j + 1] = "."
                 k == IF dot THEN DigitRunEnd(s, j + 2) ELSE j
                 frac == IF dot THEN SubSeq(s, j + 2, k) ELSE <<>>
             IN  <<RatAdd(RatInt(ToInt(SubSeq(s, i, j))),
                          Rat(ToInt(frac), Pow10(Len(frac))))>>

\* Mutant: the score is returned as parsed.
ClampUnclamped(score) == score

\* max(0.0, min(100.0, score))
Clamp(score) == RatMax(RatInt(0), RatMin(RatInt(100), score))

\* What requests.post and response.json() can give the call: the request raises,
\* or a response arrives with a status code and a body that is either unreadable
\* (json() or .get() raises) or carries the text of its "response" key ("" when
\* the key is missing).
Outcome(kind, status_code, readable, text) ==
    [kind |-> kind, status_code |-> status_code, readable |-> readable, text |-> text]

AdvisorOutcomes ==
    { Outcome("exception", 0, FALSE, <<>>),
      Outcome("response", 500, TRUE, <<"8", "5">>),
      Outcome("response", 200, FALSE, <<>>),
      Outcome("response", 200, TRUE, <<>>),
      Outcome("response", 200, TRUE, <<"n", "/", "a">>),
      Outcome("response", 200, TRUE, <<"8", "5">>),
      Outcome("response", 200, TRUE, <<"1", "5", "0">>),
      Outcome("response", 200, TRUE, <<"S", "c", "o", "r", "e", ":", " ", "7", "2", ".", "5">>),
      Outcome("response", 200, TRUE, <<"7", " ", "o", "f", " ", "1", "0">>) }

\* Lines 223-242, once requests.post has given `outcome`.
_use_llm_for_final_evaluation(outcome, skill_score, experience_score, education_score) ==
    LET fallback ==
            _calculate_weighted_average(skill_score, experience_score, education_score)
    IN  IF outcome.kind = "exception" THEN fallback
        ELSE IF outcome.status_code = 200
        THEN IF ~outcome.readable THEN fallback
             ELSE LET match == FirstNumber(outcome.text)
                  IN  IF Len(match) > 0 THEN Clamp(match[1]) ELSE fallback
        ELSE fallback

(***************************************************************************)
(* Matcher: matcher.py, match_candidate_to_job                            *)
(***************************************************************************)
MaxJobSkills == 1

JobIds == {None, "JD-1234"}

CandidateIds == {None, "C-5678"}

JobSkillPool == {Skill_Python, Skill_REST_databases}

Jobs ==
    [job_id : JobIds,
     required_skills : SeqUpTo(JobSkillPool, MaxJobSkills),
     preferred_skills : SeqUpTo(JobSkillPool, MaxJobSkills),
     experience : {Req_empty, Req_5plus_years, Req_senior},
     education : {<<>>, <<Edu_Master_or_PhD>>}]

Candidates ==
    [candidate_id : CandidateIds,
     skills : {<<>>, <<Skill_python_programming>>, <<Skill_database, Skill_Python>>},
     experience : {<<>>, <<Exp_2016_2020>>, <<Exp_3years_2020_Present, Exp_2016_2020>>},
     education : {<<>>, <<Deg_Bachelor_of_Science>>}]

\* The MatchResult constructor: job_id and candidate_id are declared str, and
\* pydantic raises ValidationError when given None for either.
MatchResult(job_id, candidate_id, overall_match_score, skill_match_score, experience_match_score, education_match_score, match_details) ==
    IF job_id = None \/ candidate_id = None THEN [type |-> "ValidationError"]
    ELSE [type |-> "MatchResult", job_id |-> job_id, candidate_id |-> candidate_id,
          overall_match_score |-> overall_match_score,
          skill_match_score |-> skill_match_score,
          experience_match_score |-> experience_match_score,
          education_match_score |-> education_match_score,
          match_details |-> match_details]

\* Lines 251-267 and the request of line 215: the three sub-scores are computed
\* and the call blocks in requests.post, or requests.post raises at once when the
\* endpoint has no scheme.
Begin(j, c) ==
    /\ IF HasScheme(agent.api_endpoint)
       THEN pc' = "awaiting_advisor" /\ advisor' = advisor
       ELSE pc' = "advisor_answered" /\ advisor' = Outcome("exception", 0, FALSE, <<>>)
    /\ job' = j
    /\ candidate' = c
    /\ LET all_job_skills == j.required_skills \o j.preferred_skills
           skill == _calculate_skill_match(all_job_skills, c.skills)
       IN  scores' = [skill_score |-> skill.score,
                      matched_skills |-> skill.matched,
                      experience_score |->
                          _calculate_experience_match(j.experience, c.experience),
                      education_score |->
                          _calculate_education_match(j.education, c.education)]
    /\ UNCHANGED <<result, agent, batch, serviceVars, call, ret>>

\* A call of match_candidate_to_job(job, candidate); the agent serves one at a time.
MatchCall ==
    /\ pc = "idle"
    /\ call = NoCall
    /\ batch = NoBatch
    /\ \E j \in Jobs, c \in Candidates : Begin(j, c)

\* The advisor's side: requests.post gives the blocked call a response or an
\* exception.  The request carries no timeout, so nothing else ends the wait.
AdvisorAnswers ==
    /\ pc = "awaiting_advisor"
    /\ \E outcome \in AdvisorOutcomes : advisor' = outcome
    /\ pc' = "advisor_answered"
    /\ UNCHANGED <<job, candidate, scores, result, agent, batch, serviceVars, call, ret>>

\* Lines 223-298: the overall score, match_details and the MatchResult.
Finish ==
    /\ pc = "advisor_answered"
    /\ LET all_job_skills == job.required_skills \o job.preferred_skills
           overall_score ==
               _use_llm_for_final_evaluation(advisor, scores.skill_score,
                   scores.experience_score, scores.education_score)
           skill_missing(skill) == ~InList(skill, scores.matched_skills)
           match_details ==
               [matched_skills |-> scores.matched_skills,
                missing_skills |-> SelectSeq(all_job_skills, skill_missing),
                skill_match_percentage |-> scores.skill_score,
                experience_match_percentage |-> scores.experience_score,
                education_match_percentage |-> scores.education_score]
           made == MatchResult(job.job_id, candidate.candidate_id, overall_score,
                       scores.skill_score, scores.experience_score,
                       scores.education_score, match_details)
       IN  /\ result' = made
           /\ pc' = IF made.type = "MatchResult" THEN "returned" ELSE "raised"
    /\ UNCHANGED <<job, candidate, scores, advisor, agent, batch, serviceVars, call, ret>>

Next == MatchCall \/ AdvisorAnswers \/ Finish

Spec == Init /\ [][Next]_vars

\* The matcher's own steps always run once a call is in progress; whether and
\* when the advisor answers is up to the network.
LiveSpec == Spec /\ WF_vars(Finish)

(***************************************************************************)
(* Properties of match_candidate_to_job                                   *)
(***************************************************************************)
InRange(score) == RatLeq(RatInt(0), score) /\ RatLeq(score, RatInt(100))

\* 0.5*skill + 0.3*experience + 0.2*education of the sub-scores the call computed.
WeightedOfScores ==
    RatAdd(RatAdd(RatMul(Rat(1, 2), scores.skill_score),
                  RatMul(Rat(3, 10), scores.experience_score)),
           RatMul(Rat(1, 5), scores.education_score))

\* The advisory call failed: the request raised, the status is not 200, the body
\* cannot be read, or the reply holds no number.
AdvisoryCallFailed ==
    \/ advisor.kind = "exception"
    \/ advisor.status_code # 200
    \/ ~advisor.readable
    \/ \A i \in 1..Len(advisor.text) : advisor.text[i] \notin Digits

\* C1: every MatchResult returned has its three sub-scores and its overall score
\* within [0, 100], whatever the advisor did.
C1_ScoresInRange ==
    pc = "returned" =>
        /\ InRange(result.skill_match_score)
        /\ InRange(result.experience_match_score)
        /\ InRange(result.education_match_score)
        /\ InRange(result.overall_match_score)

\* C1 witness: the advisor replied 150 and the MatchResult carries 100.
C1_Witness ==
    /\ pc = "returned"
    /\ advisor = Outcome("response", 200, TRUE, <<"1", "5", "0">>)
    /\ result.overall_match_score = RatInt(100)

\* C2: whenever the advisory call fails, match_candidate_to_job does not raise and
\* its overall score is exactly the weighted average of its three sub-scores.
C2_FallbackOnFailure ==
    (pc \in {"returned", "raised"} /\ AdvisoryCallFailed) =>
        /\ pc = "returned"
        /\ result.overall_match_score = WeightedOfScores

\* C3: the advisory call is bounded in time: a call waiting for the advisor gets an
\* answer or, failing that, returns a MatchResult with the weighted average.
C3_AdvisoryCallBounded ==
    (pc = "awaiting_advisor") ~>
        \/ pc = "advisor_answered"
        \/ pc = "returned" /\ result.overall_match_score = WeightedOfScores

\* C4: match_candidate_to_job never raises, for any job, candidate and advisor
\* outcome, unset optional ids included.
C4_NeverRaises == pc # "raised"

ToSet(xs) == {xs[i] : i \in 1..Len(xs)}

NoRepeat(xs) == \A i, k \in 1..Len(xs) : xs[i] = xs[k] => i = k

\* C5: in every MatchResult, matched_skills and missing_skills are disjoint, neither
\* repeats a skill, and together they hold exactly the skills of
\* required_skills + preferred_skills.
C5_MatchedMissingPartition ==
    pc = "returned" =>
        LET matched == result.match_details.matched_skills
            missing == result.match_details.missing_skills
        IN  /\ ToSet(matched) \cap ToSet(missing) = {}
            /\ NoRepeat(matched)
            /\ NoRepeat(missing)
            /\ ToSet(matched) \cup ToSet(missing)
                  = ToSet(job.required_skills) \cup ToSet(job.preferred_skills)

\* C8 as claimed: a job with empty required_skills gets skill score 100 and no
\* matched skills, whatever preferred_skills is.
C8_EmptyRequiredFullMatch ==
    (pc = "returned" /\ job.required_skills = <<>>) =>
        /\ result.skill_match_score = RatInt(100)
        /\ result.match_details.matched_skills = <<>>

\* C8, amended: a job with empty required_skills and empty preferred_skills gets
\* skill score 100 and no matched skills, for every candidate.
C8_EmptyRequiredAndPreferredFullMatch ==
    (pc = "returned" /\ job.required_skills = <<>> /\ job.preferred_skills = <<>>) =>
        /\ result.skill_match_score = RatInt(100)
        /\ result.match_details.matched_skills = <<>>

\* C8 witness: no job skills at all, a candidate with skills, score 100.
C8_Witness ==
    /\ pc = "returned"
    /\ job.required_skills = <<>>
    /\ job.preferred_skills = <<>>
    /\ candidate.skills # <<>>
    /\ result.skill_match_score = RatInt(100)

(***************************************************************************)
(* Properties of the scoring methods                                      *)
(***************************************************************************)
TokenSet(skill) == ToSet(_preprocess_text(skill))

\* C6: for a non-empty job skill list, matched is the job skills, in order, whose
\* token set is a subset or a superset of some candidate skill's token set; the
\* score is 100 * |matched| / |job skills|; no candidate skills gives 0 and [].
C6_SkillMatchByContainment ==
    (call.op = "_calculate_skill_match" /\ call.job_skills # <<>>) =>
        LET contained(job_skill) ==
                \E i \in 1..Len(call.candidate_skills) :
                    \/ TokenSet(job_skill) \subseteq TokenSet(call.candidate_skills[i])
                    \/ TokenSet(call.candidate_skills[i]) \subseteq TokenSet(job_skill)
        IN  /\ ret.matched = SelectSeq(call.job_skills, contained)
            /\ ret.score = Rat(100 * Len(ret.matched), Len(call.job_skills))
            /\ call.candidate_skills = <<>> =>
                  (ret.score = RatInt(0) /\ ret.matched = <<>>)

\* C6 witness: the candidate's narrower skill matches the job's wider one, the
\* other job skill stays unmatched, and the score is 50.
C6_Witness ==
    /\ call = [op |-> "_calculate_skill_match",
               job_skills |-> <<Skill_REST_databases, Skill_Python>>,
               candidate_skills |-> <<Skill_database>>]
    /\ ret = [score |-> RatInt(50), matched |-> <<Skill_REST_databases>>]

\* C7: an absent requirement is a full match: no job skills gives (100, []), an
\* empty required experience gives 100, an empty required education gives 100,
\* whatever the candidate's data.
C7_AbsentRequirementFullMatch ==
    /\ (call.op = "_calculate_skill_match" /\ call.job_skills = <<>>) =>
          ret = [score |-> RatInt(100), matched |-> <<>>]
    /\ (call.op = "_calculate_experience_match" /\ call.required_experience = <<>>) =>
          ret.returned = RatInt(100)
    /\ (call.op = "_calculate_education_match" /\ call.required_education = <<>>) =>
          ret.returned = RatInt(100)

\* C7 witness: no experience required, a candidate with one year, score 100.
C7_Witness ==
    /\ call.op = "_calculate_experience_match"
    /\ call.required_experience = <<>>
    /\ call.candidate_experiences = <<Exp_1year_2016_2020>>
    /\ ret.returned = RatInt(100)

\* C9: with R the required years and T the candidate's total, the score is 100 for
\* T >= R, 90 for 0.8R <= T < R, 70 for 0.6R <= T < 0.8R, 50 for 0.4R <= T < 0.6R
\* and 30 otherwise, the lower end of each band included.
C9_ExperienceBands ==
    (call.op = "_calculate_experience_match" /\ ret.required_years # Unset) =>
        LET R == ret.required_years[1]
            T == ret.total_candidate_years[1]
            score == ret.returned
        IN  /\ R >= 0
            /\ T >= R => score = RatInt(100)
            /\ (10 * T >= 8 * R /\ T < R) => score = RatInt(90)
            /\ (10 * T >= 6 * R /\ 10 * T < 8 * R) => score = RatInt(70)
            /\ (10 * T >= 4 * R /\ 10 * T < 6 * R) => score = RatInt(50)
            /\ 10 * T < 4 * R => score = RatInt(30)

\* C9 witness: 5 years required, a total of exactly 4 = 0.8 * 5, score 90.
C9_Witness ==
    /\ call.op = "_calculate_experience_match"
    /\ ret.required_years = <<5>>
    /\ ret.total_candidate_years = <<4>>
    /\ ret.returned = RatInt(90)

\* The year count each duration of the pool states, read by hand; <<>> for none.
DurationYearsByHand(duration) ==
    CASE duration = <<"3", " ", "y", "e", "a", "r", "s">> -> <<3>>
      [] duration = <<"2", "+", " ", "Y", "r", "s">> -> <<2>>
      [] duration = <<"1", " ", "y", "e", "a", "r">> -> <<1>>
      [] duration = <<"6", " ", "m", "o", "n", "t", "h", "s">> -> <<>>
      [] duration = <<>> -> <<>>

\* The 4-digit year each date of the pool states, read by hand; <<>> for none.
DateYearByHand(date) ==
    CASE date = <<"0", "3", "/", "2", "0", "2", "0">> -> <<2020>>
      [] date = <<"0", "2", "/", "2", "0", "2", "0">> -> <<2020>>
      [] date = <<"0", "6", "/", "2", "0", "1", "6">> -> <<2016>>
      [] date = <<"2", "0", "2", "1">> -> <<2021>>
      [] date = <<"2", "0", "2", "2">> -> <<2022>>
      [] date = <<"2", "0", "1", "9">> -> <<2019>>
      [] date = <<"2", "0", "2", "0">> -> <<2020>>
      [] date = <<"o", "n", "g", "o", "i", "n", "g">> -> <<>>
      [] date = <<"P", "r", "e", "s", "e", "n", "t">> -> <<>>
      [] date = <<"t", "i", "l", "l", " ", "P", "R", "E", "S", "E", "N", "T">> -> <<>>
      [] date = <<>> -> <<>>

\* The entries whose figure C10 states: a duration, or both years, or no start year.
StatedByC10(exp) ==
    \/ DurationYearsByHand(exp.duration) # <<>>
    \/ DateYearByHand(exp.start_date) = <<>>
    \/ DateYearByHand(exp.end_date) # <<>>

FigureOfC10(exp) ==
    IF DurationYearsByHand(exp.duration) # <<>> THEN DurationYearsByHand(exp.duration)[1]
    ELSE IF DateYearByHand(exp.start_date) = <<>> THEN 0
    ELSE DateYearByHand(exp.end_date)[1] - DateYearByHand(exp.start_date)[1]

RECURSIVE SumSeq(_)
SumSeq(xs) == IF Len(xs) = 0 THEN 0 ELSE xs[1] + SumSeq(Tail(xs))

\* C10: the total is the sum over the entries of a figure each entry yields on its
\* own: the years of its duration when it states some (its dates then ignored),
\* otherwise end year - start year, and 0 without duration and start year.
C10_TotalIsSumOfEntries ==
    (call.op = "_calculate_experience_match" /\ ret.total_candidate_years # Unset) =>
        LET entries == call.candidate_experiences
            figure(exp) == IF StatedByC10(exp) THEN FigureOfC10(exp) ELSE EntryYears(exp)
        IN  ret.total_candidate_years[1]
                = SumSeq([i \in 1..Len(entries) |-> figure(entries[i])])

\* C10 witness: an entry stating "1 year" next to dates four years apart counts 1,
\* an entry with the same dates and no duration counts 4, the total is 5.
C10_Witness ==
    /\ call.op = "_calculate_experience_match"
    /\ call.candidate_experiences = <<Exp_1year_2016_2020, Exp_2016_2020>>
    /\ ret.total_candidate_years = <<5>>

\* An entry without a stated duration, with a start year, whose end_date says
\* "present" in some letter case.
OngoingEntry(exp) ==
    /\ DurationYearsByHand(exp.duration) = <<>>
    /\ DateYearByHand(exp.start_date) # <<>>
    /\ exp.end_date \in {<<"P", "r", "e", "s", "e", "n", "t">>, <<"t", "i", "l", "l", " ", "P", "R", "E", "S", "E", "N", "T">>}

\* C11: an entry without a parseable duration whose end_date contains "present"
\* counts (calendar year of the call - start year) years.
C11_PresentIsCurrentYear ==
    (call.op = "_calculate_experience_match" /\ ret.total_candidate_years # Unset) =>
        LET entries == call.candidate_experiences
            figure(exp) ==
                IF OngoingEntry(exp)
                THEN call.current_year - DateYearByHand(exp.start_date)[1]
                ELSE EntryYears(exp)
        IN  ret.total_candidate_years[1]
                = SumSeq([i \in 1..Len(entries) |-> figure(entries[i])])

\* The year count each requirement of the pool states, read by hand; <<>> for none.
RequirementYearsByHand(required_experience) ==
    CASE required_experience = <<"5", "+", " ", "y", "e", "a", "r", "s">> -> <<5>>
      [] required_experience = <<"5", " ", "Y", "e", "a", "r", "s">> -> <<5>>
      [] required_experience = <<"1", "0", " ", "y", "r", "s">> -> <<10>>
      [] required_experience = <<"2", "y", "e", "a", "r", "s">> -> <<2>>
      [] required_experience = <<"0", " ", "y", "e", "a", "r", "s">> -> <<0>>
      [] required_experience = <<"3", "-", "5", " ", "y", "e", "a", "r", "s">> -> <<5>>
      [] required_experience = <<"s", "e", "n", "i", "o", "r">> -> <<>>
      [] required_experience = <<"f", "i", "v", "e", " ", "y", "e", "a", "r", "s">> -> <<>>
      [] required_experience = <<"1", "8", " ", "m", "o", "n", "t", "h", "s">> -> <<>>
      [] required_experience = <<>> -> <<>>

\* C12: a non-empty requirement that states no "<N> years/yrs" figure scores
\* exactly 80, whatever the candidate's entries.
C12_UnparseableRequirementDefault ==
    (/\ call.op = "_calculate_experience_match"
     /\ call.required_experience # <<>>
     /\ RequirementYearsByHand(call.required_experience) = <<>>) =>
        ret.returned = RatInt(80)

\* C12 witness: "five years" required, a candidate with seven years, score 80.
C12_Witness ==
    /\ call.op = "_calculate_experience_match"
    /\ call.required_experience = <<"f", "i", "v", "e", " ", "y", "e", "a", "r", "s">>
    /\ call.candidate_experiences = <<Exp_3years_2020_Present, Exp_2016_2020>>
    /\ ret.returned = RatInt(80)

\* The hierarchy level each education text of the pools names, read by hand;
\* 0 for none.
LevelByHand(text) ==
    CASE text = <<"B", "a", "c", "h", "e", "l", "o", "r", "'", "s", " ", "d", "e", "g", "r", "e", "e">> -> 3
      [] text = <<"M", "a", "s", "t", "e", "r", " ", "o", "r", " ", "P", "h", "D">> -> 5
      [] text = <<"H", "i", "g", "h", " ", "S", "c", "h", "o", "o", "l">> -> 1
      [] text = <<"A", "s", "s", "o", "c", "i", "a", "t", "e">> -> 2
      [] text = <<"d", "e", "g", "r", "e", "e">> -> 0
      [] text = <<"D", "o", "c", "t", "o", "r", "a", "t", "e">> -> 5
      [] text = <<"B", "a", "c", "h", "e", "l", "o", "r", " ", "o", "f", " ", "S", "c", "i", "e", "n", "c", "e">> -> 3
      [] text = <<"M", "A", "S", "T", "E", "R">> -> 4
      [] text = <<"P", "h", "D">> -> 5
      [] text = <<"D", "i", "p", "l", "o", "m", "a">> -> 0
      [] text = <<"H", "i", "g", "h", " ", "s", "c", "h", "o", "o", "l">> -> 1
      [] text = <<"A", "s", "s", "o", "c", "i", "a", "t", "e", " ", "d", "e", "g", "r", "e", "e">> -> 2

\* C13: with a non-empty requirement list, the required level is the highest level
\* named in any required string (3 when none is named), the candidate level the
\* highest named in any degree, and the score is 100 / 80 / 60 / 40 for a
\* candidate at or above / one below / two below / further below the requirement.
C13_EducationLevelsAndBands ==
    (call.op = "_calculate_education_match" /\ call.required_education # <<>>) =>
        LET required == call.required_education
            entries == call.candidate_education
            named == Max({0} \cup {LevelByHand(required[i]) : i \in 1..Len(required)})
            required_level == IF named = 0 THEN 3 ELSE named
            candidate_level ==
                Max({0} \cup {LevelByHand(entries[i].degree) : i \in 1..Len(entries)})
            expected ==
                CASE candidate_level >= required_level -> 100
                  [] candidate_level = required_level - 1 -> 80
                  [] candidate_level = required_level - 2 -> 60
                  [] OTHER -> 40
        IN  ret.returned = RatInt(expected)

\* C13 witness: "Master or PhD" required (level 5), a candidate with "High school"
\* and "MASTER" (level 4), score 80.
C13_Witness ==
    /\ call.op = "_calculate_education_match"
    /\ call.required_education = <<Edu_Master_or_PhD>>
    /\ call.candidate_education = <<Deg_High_school, Deg_MASTER>>
    /\ ret.returned = RatInt(80)

\* Nothing was configured: the agent was constructed without an advisor URL, as
\* api/main.py and __main__ construct it.
NoAdvisorConfigured == agent = MatcherAgent(DefaultOllamaUrl)

\* C14: with no advisory scorer configured, match_candidate_to_job sends no request
\* and the overall score it returns is the weighted average of the sub-scores.
C14_AdvisorOptional ==
    NoAdvisorConfigured =>
        /\ pc # "awaiting_advisor"
        /\ (pc = "returned" => result.overall_match_score = WeightedOfScores)

\* The first number written in each advisor reply of the model, read by hand;
\* <<>> for a reply without one.
ReplyNumberByHand(text) ==
    CASE text = <<"8", "5">> -> <<Rat(85, 1)>>
      [] text = <<"1", "5", "0">> -> <<Rat(150, 1)>>
      [] text = <<"S", "c", "o", "r", "e", ":", " ", "7", "2", ".", "5">> -> <<Rat(145, 2)>>
      [] text = <<"7", " ", "o", "f", " ", "1", "0">> -> <<Rat(7, 1)>>
      [] text = <<"n", "/", "a">> -> <<>>
      [] text = <<>> -> <<>>

\* The advisor answered with status 200 and a reply that holds a number.
AdvisorGaveNumber ==
    /\ advisor.kind = "response"
    /\ advisor.status_code = 200
    /\ advisor.readable
    /\ ReplyNumberByHand(advisor.text) # <<>>

\* C15: when the advisor answers 200 with a number in its reply, the overall score
\* of the MatchResult is the first number of the reply clamped to [0, 100],
\* whatever the sub-scores, and the MatchResult stores the sub-scores as computed.
C15_AdvisorNumberClamped ==
    (pc = "returned" /\ AdvisorGaveNumber) =>
        LET n == ReplyNumberByHand(advisor.text)[1]
        IN  /\ result.overall_match_score
                   = (IF RatLeq(RatInt(100), n) THEN RatInt(100) ELSE n)
            /\ result.skill_match_score = scores.skill_score
            /\ result.experience_match_score = scores.experience_score
            /\ result.education_match_score = scores.education_score

\* C15 witness: the advisor replies "150" to a call whose weighted average is
\* below 100, and the MatchResult has overall score 100.
C15_Witness ==
    /\ pc = "returned"
    /\ advisor = Outcome("response", 200, TRUE, <<"1", "5", "0">>)
    /\ WeightedOfScores # RatInt(100)
    /\ result.overall_match_score = RatInt(100)
    /\ result.skill_match_score = scores.skill_score

(***************************************************************************)
(* Shortlister: shortlister.py, ShortlisterAgent.shortlist_candidates     *)
(***************************************************************************)
ShortlistResult(job_id, shortlisted_candidates, rejected_candidates, shortlist_threshold, shortlist_stats) ==
    [type |-> "ShortlistResult",
     job_id |-> job_id,
     shortlisted_candidates |-> shortlisted_candidates,
     rejected_candidates |-> rejected_candidates,
     shortlist_threshold |-> shortlist_threshold,
     shortlist_stats |-> shortlist_stats]

\* ShortlisterAgent.__init__; 70.0 is the default of its parameter.
ShortlisterAgent(default_threshold) == [default_threshold |-> default_threshold]

\* Mutant: an empty batch is reported under no job id at all.
EmptyShortlistResultNoJob(threshold) ==
    ShortlistResult(None, <<>>, <<>>, threshold,
        [total_candidates |-> 0, shortlisted_count |-> 0, rejected_count |-> 0,
         shortlist_percentage |-> RatInt(0), avg_shortlisted_score |-> RatInt(0),
         avg_rejected_score |-> RatInt(0)])

\* Lines 30-44: the result for an empty batch.
EmptyShortlistResult(threshold) ==
    ShortlistResult("unknown", <<>>, <<>>, threshold,
        [total_candidates |-> 0, shortlisted_count |-> 0, rejected_count |-> 0,
         shortlist_percentage |-> RatInt(0), avg_shortlisted_score |-> RatInt(0),
         avg_rejected_score |-> RatInt(0)])

\* Mutant: the comparison is turned round, scores up to the threshold are kept.
ShortlistedAtMost(result_, threshold) == RatLeq(result_.overall_match_score, threshold)

\* Mutant: a score equal to the threshold is rejected.
ShortlistedStrict(result_, threshold) ==
    ~RatLeq(result_.overall_match_score, threshold)

\* Line 57: result.overall_match_score >= threshold.
Shortlisted(result_, threshold) == RatLeq(threshold, result_.overall_match_score)

\* Python's sum() of a list of scores.
RECURSIVE sum(_)
sum(xs) == IF Len(xs) = 0 THEN RatInt(0) ELSE RatAdd(xs[1], sum(Tail(xs)))

\* Mutant: the average of a bucket is the score that entered it first.
AvgScoreOfFirst(bucket_scores) ==
    IF Len(bucket_scores) > 0 THEN bucket_scores[1] ELSE RatInt(0)

\* Mutant: the average of a bucket is the sum of its scores.
AvgScoreUndivided(bucket_scores) ==
    IF Len(bucket_scores) > 0 THEN sum(bucket_scores) ELSE RatInt(0)

\* Lines 71-72: sum(scores) / count if count > 0 else 0.0.
AvgScore(bucket_scores) ==
    IF Len(bucket_scores) > 0
    THEN RatMul(sum(bucket_scores), Rat(1, Len(bucket_scores)))
    ELSE RatInt(0)

(***************************************************************************)
(* Python floats: the binary64 arithmetic behind sum(scores) / count      *)
(***************************************************************************)
\* The mantissa of a float is kept in two limbs, the low one of LimbBits bits.
LimbBits == 27

Limb == 2 ^ LimbBits

\* The bits of a binary64 mantissa.
MantissaBits == 53

\* A float that is zero or positive: the number (hi * Limb + lo) * 2^e, its
\* mantissa hi * Limb + lo in 2^52 .. 2^53 - 1, or hi = lo = 0 for zero.
Float(hi, lo, e) == [hi |-> hi, lo |-> lo, e |-> e]

FloatZero == Float(0, 0, 0)

\* The number of bits of a positive int below 2^31.
BitLength(k) == CHOOSE t \in 1..31 : 2 ^ (t - 1) <= k /\ (t = 31 \/ k < 2 ^ t)

\* Round half to even: the mantissa goes up when the bits cut off are more than
\* half a unit, or exactly half and the mantissa is odd.
RoundHalfEven(hi, lo, e, guard, sticky) ==
    IF guard = 1 /\ (sticky \/ lo % 2 = 1)
    THEN IF lo + 1 < Limb THEN Float(hi, lo + 1, e)
         ELSE IF hi + 1 < 2 ^ (MantissaBits - LimbBits) THEN Float(hi + 1, 0, e)
         ELSE Float(2 ^ (MantissaBits - LimbBits - 1), 0, e + 1)
    ELSE Float(hi, lo, e)

\* float / int for an int n in 1..16: the mantissa with a limb of zeros below
\* it is divided limb by limb, and the quotient is cut to 53 bits and rounded.
float_div(x, n) ==
    IF x = FloatZero THEN FloatZero
    ELSE LET q1 == x.hi \div n
             r1 == x.hi % n
             q2 == (r1 * Limb + x.lo) \div n
             r2 == (r1 * Limb + x.lo) % n
             q3 == (r2 * Limb) \div n
             r3 == (r2 * Limb) % n
             t == BitLength(q1)
             u == MantissaBits - LimbBits - t
             hi == q1 * 2 ^ u + (q2 \div 2 ^ (LimbBits - u))
             lo == (q2 % 2 ^ (LimbBits - u)) * 2 ^ u + (q3 \div 2 ^ (t + 1))
             guard == (q3 \div 2 ^ t) % 2
             sticky == q3 % 2 ^ t # 0 \/ r3 # 0
         IN  RoundHalfEven(hi, lo, x.e + t - (MantissaBits - LimbBits), guard, sticky)

\* float(k) for an int k in 0 .. 2^26 - 1.
float_of_int(k) ==
    IF k = 0 THEN FloatZero
    ELSE Float(k * 2 ^ (MantissaBits - LimbBits - BitLength(k)), 0,
               BitLength(k) - MantissaBits)

\* The float a decimal literal or float(str) gives: the one nearest the number.
binary64(score) == float_div(float_of_int(score.num), score.den)

\* x < y
float_less(x, y) ==
    IF y = FloatZero THEN FALSE
    ELSE IF x = FloatZero THEN TRUE
    ELSE \/ x.e < y.e
         \/ x.e = y.e /\ x.hi < y.hi
         \/ x.e = y.e /\ x.hi = y.hi /\ x.lo < y.lo

\* The mantissa (hi, lo) shifted right d times; when a 1 falls off the bottom,
\* the lowest bit is set.
ShiftedRight(hi, lo, d) ==
    LET whole == d \div LimbBits
        part == d % LimbBits
        top == IF whole = 0 THEN hi ELSE 0
        low == IF whole = 0 THEN lo ELSE IF whole = 1 THEN hi ELSE 0
        lost == \/ whole = 1 /\ lo # 0
                \/ whole > 1 /\ (hi # 0 \/ lo # 0)
                \/ low % 2 ^ part # 0
        shifted == (low \div 2 ^ part) + (top % 2 ^ part) * 2 ^ (LimbBits - part)
    IN  [hi |-> top \div 2 ^ part,
         lo |-> IF lost /\ shifted % 2 = 0 THEN shifted + 1 ELSE shifted]

\* x + y: both mantissas get three more bits at the bottom, the one of the
\* smaller exponent is shifted to the other's, the sum is brought back to 53
\* bits and the three bits decide the rounding.
float_add(x, y) ==
    IF x = FloatZero THEN y
    ELSE IF y = FloatZero THEN x
    ELSE LET big == IF x.e >= y.e THEN x ELSE y
             small == IF x.e >= y.e THEN y ELSE x
             wide(z) == [hi |-> 8 * z.hi + ((8 * z.lo) \div Limb), lo |-> (8 * z.lo) % Limb]
             a == wide(big)
             b == ShiftedRight(wide(small).hi, wide(small).lo, big.e - small.e)
             total == [hi |-> a.hi + b.hi + ((a.lo + b.lo) \div Limb),
                       lo |-> (a.lo + b.lo) % Limb]
             carried == total.hi >= 2 ^ (MantissaBits + 3 - LimbBits)
             s == IF carried THEN ShiftedRight(total.hi, total.lo, 1) ELSE total
             e == IF carried THEN big.e + 1 ELSE big.e
             cut == s.lo % 8
             hi == s.hi \div 8
             lo == (s.lo \div 8) + (s.hi % 8) * (Limb \div 8)
         IN  RoundHalfEven(hi, lo, e, cut \div 4, cut % 4 # 0)

RECURSIVE float_sum(_)
\* Python's sum() over floats: the additions from left to right, each rounded.
float_sum(xs) ==
    IF Len(xs) = 0 THEN FloatZero
    ELSE float_add(float_sum(SubSeq(xs, 1, Len(xs) - 1)), xs[Len(xs)])

\* Lines 71-72 as the interpreter computes them: the scores are floats, summed
\* from left to right and divided by the count, every operation rounded.
AvgScoreBinary64(bucket_scores) ==
    IF Len(bucket_scores) > 0
    THEN float_div(
             float_sum([i \in 1..Len(bucket_scores) |-> binary64(bucket_scores[i])]),
             Len(bucket_scores))
    ELSE FloatZero

\* Mutant: the total counts the shortlisted candidates only.
ShortlistStatsTotalOfShortlisted(match_results, shortlisted, rejected, shortlisted_scores, rejected_scores) ==
    LET total_candidates == Len(shortlisted)
        shortlisted_count == Len(shortlisted)
        rejected_count == Len(rejected)
    IN  [total_candidates |-> total_candidates,
         shortlisted_count |-> shortlisted_count,
         rejected_count |-> rejected_count,
         shortlist_percentage |->
             IF total_candidates > 0
             THEN RatMul(Rat(shortlisted_count, total_candidates), RatInt(100))
             ELSE RatInt(0),
         avg_shortlisted_score |-> AvgScore(shortlisted_scores),
         avg_rejected_score |-> AvgScore(rejected_scores)]

\* Lines 64-72 and 80-87: the statistics of a non-empty batch.
ShortlistStats(match_results, shortlisted, rejected, shortlisted_scores, rejected_scores) ==
    LET total_candidates == Len(match_results)
        shortlisted_count == Len(shortlisted)
        rejected_count == Len(rejected)
    IN  [total_candidates |-> total_candidates,
         shortlisted_count |-> shortlisted_count,
         rejected_count |-> rejected_count,
         shortlist_percentage |->
             IF total_candidates > 0
             THEN RatMul(Rat(shortlisted_count, total_candidates), RatInt(100))
             ELSE RatInt(0),
         avg_shortlisted_score |-> AvgScore(shortlisted_scores),
         avg_rejected_score |-> AvgScore(rejected_scores)]

\* shortlist_candidates(self, match_results, threshold); the threshold argument is
\* <<>> for None and <<t>> for a float t.
shortlist_candidates(self, match_results, threshold_arg) ==
    LET threshold == IF threshold_arg = <<>> THEN self.default_threshold
                     ELSE threshold_arg[1]
    IN  IF Len(match_results) = 0 THEN EmptyShortlistResult(threshold)
        ELSE LET job_id == match_results[1].job_id
                 above(result_) == Shortlisted(result_, threshold)
                 below(result_) == ~Shortlisted(result_, threshold)
                 kept == SelectSeq(match_results, above)
                 dropped == SelectSeq(match_results, below)
                 shortlisted == [i \in 1..Len(kept) |-> kept[i].candidate_id]
                 rejected == [i \in 1..Len(dropped) |-> dropped[i].candidate_id]
                 shortlisted_scores ==
                     [i \in 1..Len(kept) |-> kept[i].overall_match_score]
                 rejected_scores ==
                     [i \in 1..Len(dropped) |-> dropped[i].overall_match_score]
             IN  ShortlistResult(job_id, shortlisted, rejected, threshold,
                     ShortlistStats(match_results, shortlisted, rejected,
                         shortlisted_scores, rejected_scores))

\* The floats shortlist_candidates holds for the call: the threshold in effect
\* and the two averages of lines 71-72.
ShortlistFloats(self, match_results, threshold_arg) ==
    LET threshold == IF threshold_arg = <<>> THEN self.default_threshold
                     ELSE threshold_arg[1]
        above(result_) == Shortlisted(result_, threshold)
        below(result_) == ~Shortlisted(result_, threshold)
        kept == SelectSeq(match_results, above)
        dropped == SelectSeq(match_results, below)
    IN  [threshold |-> binary64(threshold),
         avg_shortlisted_score |->
             AvgScoreBinary64([i \in 1..Len(kept) |-> kept[i].overall_match_score]),
         avg_rejected_score |->
             AvgScoreBinary64([i \in 1..Len(dropped) |-> dropped[i].overall_match_score])]

\* The longest batch of match results handed to the shortlister.
MaxBatch == 4

\* The four MatchResults of the module's example, and one that scores 70.0.
Match_C5678 ==
    MatchResult("JD-1234", "C-5678", Rat(171, 2), RatInt(90), RatInt(80), RatInt(100), <<>>)

Match_C5679 ==
    MatchResult("JD-1234", "C-5679", Rat(326, 5), RatInt(60), RatInt(70), RatInt(80), <<>>)

Match_C5680 ==
    MatchResult("JD-1234", "C-5680", Rat(927, 10), RatInt(95), RatInt(90), RatInt(100), <<>>)

Match_C5681 ==
    MatchResult("JD-1234", "C-5681", RatInt(72), RatInt(75), RatInt(70), RatInt(60), <<>>)

Match_C5682 ==
    MatchResult("JD-1234", "C-5682", RatInt(70), RatInt(70), RatInt(70), RatInt(70), <<>>)

\* One that scores 50.8.
Match_C5683 ==
    MatchResult("JD-1234", "C-5683", Rat(254, 5), RatInt(50), RatInt(50), RatInt(60), <<>>)

MatchResultPool ==
    {Match_C5678, Match_C5679, Match_C5680, Match_C5681, Match_C5682, Match_C5683}

\* The agents: ShortlisterAgent() and one constructed with another default.
ShortlisterAgents == {ShortlisterAgent(RatInt(70)), ShortlisterAgent(RatInt(60))}

\* The threshold arguments: None, and floats below, among and above the scores.
ThresholdArgs == {<<>>, <<RatInt(0)>>, <<Rat(254, 5)>>, <<RatInt(72)>>, <<RatInt(95)>>}

CallShortlist ==
    /\ call = NoCall
    /\ \E self \in ShortlisterAgents,
          match_results \in SeqUpTo(MatchResultPool, MaxBatch),
          threshold \in ThresholdArgs :
          /\ call' = [op |-> "shortlist_candidates", self |-> self,
                      match_results |-> match_results, threshold |-> threshold]
          /\ ret' = [returned |-> shortlist_candidates(self, match_results, threshold),
                      floats |-> ShortlistFloats(self, match_results, threshold)]
    /\ UNCHANGED <<matcherVars, batch, serviceVars>>

NextShortlist == CallShortlist

SpecShortlist == Init /\ [][NextShortlist]_vars

\* The threshold in effect in a shortlist_candidates call: the one passed, or the
\* agent's default when none is.
ThresholdInEffect ==
    IF call.threshold = <<>> THEN call.self.default_threshold ELSE call.threshold[1]

\* The positions of the batch whose score is at least / below the threshold.
AtOrAbove == {i \in 1..Len(call.match_results) :
                 LET score == call.match_results[i].overall_match_score
                 IN  ThresholdInEffect.num * score.den <= score.num * ThresholdInEffect.den}

Below == (1..Len(call.match_results)) \ AtOrAbove

\* xs lists the candidate ids of the positions P of the batch, in batch order.
ListsInOrder(xs, P) ==
    /\ Len(xs) = Cardinality(P)
    /\ \A i \in P :
           xs[Cardinality({k \in P : k <= i})] = call.match_results[i].candidate_id

\* C16: for a non-empty batch, shortlisted_candidates lists exactly the matches with
\* score >= threshold (equality included) and rejected_candidates the others, both
\* in the order of the batch.
C16_PartitionByThreshold ==
    (call.op = "shortlist_candidates" /\ call.match_results # <<>>) =>
        /\ ListsInOrder(ret.returned.shortlisted_candidates, AtOrAbove)
        /\ ListsInOrder(ret.returned.rejected_candidates, Below)

\* C16 witness: under the default threshold 70.0 a batch whose second match scores
\* exactly 70.0 has it shortlisted, after the first and before the last.
C16_Witness ==
    /\ call.op = "shortlist_candidates"
    /\ call.threshold = <<>>
    /\ call.self = ShortlisterAgent(RatInt(70))
    /\ call.match_results = <<Match_C5680, Match_C5682, Match_C5679, Match_C5678>>
    /\ ret.returned.shortlisted_candidates = <<"C-5680", "C-5682", "C-5678">>
    /\ ret.returned.rejected_candidates = <<"C-5679">>

\* C17: in every ShortlistResult the shortlisted and rejected counts add up to
\* total_candidates, which is the length of the batch, and each count is the
\* length of its list.
C17_CountsAddUp ==
    (call.op = "shortlist_candidates") =>
        LET stats == ret.returned.shortlist_stats
        IN  /\ stats.shortlisted_count + stats.rejected_count = stats.total_candidates
            /\ stats.total_candidates = Len(call.match_results)
            /\ stats.shortlisted_count = Len(ret.returned.shortlisted_candidates)
            /\ stats.rejected_count = Len(ret.returned.rejected_candidates)

\* C17 witness: a batch of three with two shortlisted and one rejected.
C17_Witness ==
    /\ call.op = "shortlist_candidates"
    /\ Len(call.match_results) = 3
    /\ ret.returned.shortlist_stats.total_candidates = 3
    /\ ret.returned.shortlist_stats.shortlisted_count = 2
    /\ ret.returned.shortlist_stats.rejected_count = 1

\* C18: on an empty batch the call returns job_id "unknown", empty lists, counts 0,
\* percentage and averages 0.0, and the threshold in effect.
C18_EmptyBatch ==
    (call.op = "shortlist_candidates" /\ call.match_results = <<>>) =>
        /\ ret.returned.type = "ShortlistResult"
        /\ ret.returned.job_id = "unknown"
        /\ ret.returned.shortlisted_candidates = <<>>
        /\ ret.returned.rejected_candidates = <<>>
        /\ ret.returned.shortlist_threshold = ThresholdInEffect
        /\ ret.returned.shortlist_stats =
               [total_candidates |-> 0, shortlisted_count |-> 0, rejected_count |-> 0,
                shortlist_percentage |-> RatInt(0),
                avg_shortlisted_score |-> RatInt(0),
                avg_rejected_score |-> RatInt(0)]

\* C18 witness: an empty batch with threshold 95.0 passed to an agent whose default
\* is 70.0.
C18_Witness ==
    /\ call.op = "shortlist_candidates"
    /\ call.match_results = <<>>
    /\ call.threshold = <<RatInt(95)>>
    /\ call.self = ShortlisterAgent(RatInt(70))
    /\ ret.returned.job_id = "unknown"
    /\ ret.returned.shortlist_threshold = RatInt(95)

\* The sum of the scores at the positions P of the batch.
RECURSIVE ScoreSum(_)
ScoreSum(P) ==
    IF P = {} THEN RatInt(0)
    ELSE LET i == CHOOSE k \in P : TRUE
         IN  RatAdd(call.match_results[i].overall_match_score, ScoreSum(P \ {i}))

\* mean is the arithmetic mean of the scores at the positions P, 0 for no position.
IsMeanOf(mean, P) ==
    IF P = {} THEN mean = RatInt(0)
    ELSE RatMul(mean, RatInt(Cardinality(P))) = ScoreSum(P)

\* The batch of the module's example: scores 85.5, 65.2, 92.7, 72.0.
ExampleBatch == <<Match_C5678, Match_C5679, Match_C5680, Match_C5681>>

\* C19: for a non-empty batch the percentage is shortlisted_count / total * 100,
\* each average is the mean of the scores of its bucket, 0.0 for an empty bucket;
\* the example batch at threshold 70.0 has three shortlisted, one rejected and
\* percentage 75.0.
C19_PercentageAndMeans ==
    (call.op = "shortlist_candidates" /\ call.match_results # <<>>) =>
        LET stats == ret.returned.shortlist_stats
        IN  /\ stats.shortlist_percentage.num * stats.total_candidates
                   = stats.shortlisted_count * 100 * stats.shortlist_percentage.den
            /\ IsMeanOf(stats.avg_shortlisted_score, AtOrAbove)
            /\ IsMeanOf(stats.avg_rejected_score, Below)
            /\ (call.match_results = ExampleBatch /\ ThresholdInEffect = RatInt(70)) =>
                   /\ stats.shortlisted_count = 3
                   /\ stats.rejected_count = 1
                   /\ stats.shortlist_percentage = RatInt(75)

\* C19 witness: the example batch under the default threshold 70.0.
C19_Witness ==
    /\ call.op = "shortlist_candidates"
    /\ call.match_results = ExampleBatch
    /\ call.threshold = <<>>
    /\ call.self = ShortlisterAgent(RatInt(70))
    /\ ret.returned.shortlist_stats.shortlist_percentage = RatInt(75)
    /\ ret.returned.shortlist_stats.avg_rejected_score = Rat(326, 5)

(***************************************************************************)
(* One job's candidates matched side by side, the results collected as    *)
(* the calls complete, and the collected batch shortlisted                *)
(***************************************************************************)
\* match_candidate_to_job(job, candidate) as a whole, given what requests.post
\* gives the call.
match_candidate_to_job(self, j, c, outcome) ==
    LET all_job_skills == j.required_skills \o j.preferred_skills
        skill == _calculate_skill_match(all_job_skills, c.skills)
        experience_score == _calculate_experience_match(j.experience, c.experience)
        education_score == _calculate_education_match(j.education, c.education)
        posted == IF HasScheme(self.api_endpoint) THEN outcome
                  ELSE Outcome("exception", 0, FALSE, <<>>)
        overall_score ==
            _use_llm_for_final_evaluation(posted, skill.score, experience_score,
                education_score)
        skill_missing(s) == ~InList(s, skill.matched)
        match_details ==
            [matched_skills |-> skill.matched,
             missing_skills |-> SelectSeq(all_job_skills, skill_missing),
             skill_match_percentage |-> skill.score,
             experience_match_percentage |-> experience_score,
             education_match_percentage |-> education_score]
    IN  MatchResult(j.job_id, c.candidate_id, overall_score, skill.score,
            experience_score, education_score, match_details)

\* The most candidates matched side by side.
MaxConcurrent == 2

\* The job of the batch and its stored candidates, each with its id.
BatchJob ==
    [job_id |-> "JD-1234", required_skills |-> <<Skill_Python>>,
     preferred_skills |-> <<Skill_REST_databases>>, experience |-> Req_5plus_years,
     education |-> <<Edu_Master_or_PhD>>]

Cand_C5678 ==
    [candidate_id |-> "C-5678", skills |-> <<Skill_database, Skill_Python>>,
     experience |-> <<Exp_3years_2020_Present, Exp_2016_2020>>,
     education |-> <<Deg_Bachelor_of_Science>>]

Cand_C5679 ==
    [candidate_id |-> "C-5679", skills |-> <<Skill_python_programming>>,
     experience |-> <<Exp_2016_2020>>, education |-> <<>>]

Cand_C5680 ==
    [candidate_id |-> "C-5680", skills |-> <<>>, experience |-> <<>>,
     education |-> <<Deg_Bachelor_of_Science>>]

BatchCandidates == {Cand_C5678, Cand_C5679, Cand_C5680}

\* What the advisor gives the calls of a batch.
BatchOutcomes ==
    { Outcome("exception", 0, FALSE, <<>>),
      Outcome("response", 200, TRUE, <<"8", "5">>),
      Outcome("response", 200, TRUE, <<"7", " ", "o", "f", " ", "1", "0">>) }

BatchThresholds == {<<>>, <<RatInt(85)>>}

\* The orchestrator starts one match_candidate_to_job call per candidate of the job.
SubmitBatch ==
    /\ batch = NoBatch
    /\ pc = "idle"
    /\ call = NoCall
    /\ \E candidates \in SeqUpTo(BatchCandidates, MaxConcurrent),
          threshold \in BatchThresholds :
          /\ Len(candidates) > 0
          /\ NoRepeat(candidates)
          /\ batch' = [phase |-> "matching",
                       job |-> BatchJob,
                       candidates |-> candidates,
                       threshold |-> threshold,
                       results |-> [i \in 1..Len(candidates) |-> Nothing],
                       collected |-> <<>>,
                       shortlist |-> Nothing]
    /\ UNCHANGED <<matcherVars, serviceVars, call, ret>>

\* One of the calls in flight returns; its MatchResult is collected behind those
\* that returned before it.
CompleteMatch ==
    /\ batch.phase = "matching"
    /\ \E i \in 1..Len(batch.candidates), outcome \in BatchOutcomes :
          /\ batch.results[i] = Nothing
          /\ LET made == match_candidate_to_job(agent, batch.job, batch.candidates[i],
                             outcome)
             IN  batch' = [batch EXCEPT !.results[i] = made,
                                        !.collected = Append(@, made)]
    /\ UNCHANGED <<matcherVars, serviceVars, call, ret>>

\* Every call has returned: the collected MatchResults are shortlisted.
ShortlistBatch ==
    /\ batch.phase = "matching"
    /\ \A i \in 1..Len(batch.candidates) : batch.results[i] # Nothing
    /\ batch' = [batch EXCEPT
                    !.phase = "shortlisted",
                    !.shortlist = shortlist_candidates(ShortlisterAgent(RatInt(70)),
                                      batch.collected, batch.threshold)]
    /\ UNCHANGED <<matcherVars, serviceVars, call, ret>>

NextBatch == SubmitBatch \/ CompleteMatch \/ ShortlistBatch

SpecBatch == Init /\ [][NextBatch]_vars

\* The shortlist of the same MatchResults taken in the order the calls were started.
ShortlistInSubmissionOrder ==
    shortlist_candidates(ShortlisterAgent(RatInt(70)), batch.results, batch.threshold)

BatchThreshold ==
    IF batch.threshold = <<>> THEN RatInt(70) ELSE batch.threshold[1]

\* The calls of the batch whose MatchResult scores at least / below the threshold.
BatchAtOrAbove ==
    {i \in 1..Len(batch.candidates) :
        LET score == batch.results[i].overall_match_score
        IN  BatchThreshold.num * score.den <= score.num * BatchThreshold.den}

BatchBelow == (1..Len(batch.candidates)) \ BatchAtOrAbove

RECURSIVE BatchScoreSum(_)
BatchScoreSum(P) ==
    IF P = {} THEN RatInt(0)
    ELSE LET i == CHOOSE k \in P : TRUE
         IN  RatAdd(batch.results[i].overall_match_score, BatchScoreSum(P \ {i}))

BatchMeanOf(mean, P) ==
    IF P = {} THEN mean = RatInt(0)
    ELSE RatMul(mean, RatInt(Cardinality(P))) = BatchScoreSum(P)

MatcherAfterCall(self) == self

\* Mutant: a threshold passed to a call stays as the agent's default.
ShortlisterAfterCallKeepsThreshold(self, threshold_arg) ==
    IF threshold_arg = <<>> THEN self ELSE ShortlisterAgent(threshold_arg[1])

\* What shortlist_candidates leaves in self: lines 26-27 bind the local name
\* threshold; self.default_threshold is read, never assigned.
ShortlisterAfterCall(self, threshold_arg) == self

\* The arguments of match_candidate_to_job after the call: all_job_skills is a new
\* list (line 254) and the entries are copied by .dict(); nothing is written back.
MatchArgumentsAfterCall(j, c) == [job |-> j, candidate |-> c]

\* The batch passed to shortlist_candidates after the call: it is only iterated.
BatchAfterCall(match_results) == match_results

\* The most calls one process serves.
MaxCalls == 2

SessionCandidates == {Cand_C5678, Cand_C5679}

SessionOutcomes ==
    { Outcome("exception", 0, FALSE, <<>>),
      Outcome("response", 200, TRUE, <<"8", "5">>) }

SessionBatches == SeqUpTo({Match_C5681, Match_C5682}, 1)

SessionThresholds == {<<>>, <<RatInt(72)>>}

\* The process constructs its agents (api/main.py:45-46, with any defaults).
StartSession ==
    /\ session = NoSession
    /\ pc = "idle"
    /\ batch = NoBatch
    /\ call = NoCall
    /\ \E shortlister \in ShortlisterAgents :
          session' = [phase |-> "serving",
                      constructed |-> [matcher |-> agent, shortlister |-> shortlister],
                      matcher |-> agent,
                      shortlister |-> shortlister,
                      served |-> <<>>]
    /\ UNCHANGED <<matcherVars, batch, db, call, ret>>

ServeMatch ==
    /\ session.phase = "serving"
    /\ Len(session.served) < MaxCalls
    /\ \E c \in SessionCandidates, outcome \in SessionOutcomes :
          session' = [session EXCEPT
              !.matcher = MatcherAfterCall(@),
              !.served = Append(@,
                  [op |-> "match_candidate_to_job",
                   job |-> BatchJob, candidate |-> c, outcome |-> outcome,
                   after |-> MatchArgumentsAfterCall(BatchJob, c),
                   returned |-> match_candidate_to_job(session.matcher, BatchJob, c,
                                    outcome)])]
    /\ UNCHANGED <<matcherVars, batch, db, call, ret>>

ServeShortlist ==
    /\ session.phase = "serving"
    /\ Len(session.served) < MaxCalls
    /\ \E match_results \in SessionBatches, threshold \in SessionThresholds :
          session' = [session EXCEPT
              !.shortlister = ShortlisterAfterCall(@, threshold),
              !.served = Append(@,
                  [op |-> "shortlist_candidates",
                   match_results |-> match_results, threshold |-> threshold,
                   after |-> BatchAfterCall(match_results),
                   returned |-> shortlist_candidates(session.shortlister,
                                    match_results, threshold)])]
    /\ UNCHANGED <<matcherVars, batch, db, call, ret>>

NextSession == StartSession \/ ServeMatch \/ ServeShortlist

SpecSession == Init /\ [][NextSession]_vars

Get(d, key, default) == IF key \in DOMAIN d THEN d[key] ELSE default

\* The rows of the matches table for a (job_id, candidate_id) pair.
MatchRows(database, job_id, candidate_id) ==
    {row \in database.matches : row.job_id = job_id /\ row.candidate_id = candidate_id}

\* Mutant: a plain INSERT, with no UNIQUE(job_id, candidate_id) to replace on.
insert_match_adding(database, match_data) ==
    LET job_id == Get(match_data, "job_id", None)
        candidate_id == Get(match_data, "candidate_id", None)
    IN  IF job_id = None \/ candidate_id = None
        THEN [db |-> database, returned |-> FALSE, replaced |-> {}]
        ELSE LET match_id == database.last_match_id + 1
                 row == [match_id |-> match_id,
                         job_id |-> job_id,
                         candidate_id |-> candidate_id,
                         overall_match_score |->
                             Get(match_data, "overall_match_score", RatInt(0)),
                         skill_match_score |->
                             Get(match_data, "skill_match_score", RatInt(0)),
                         is_shortlisted |-> Get(match_data, "is_shortlisted", 0)]
             IN  [db |-> [database EXCEPT !.matches = @ \cup {row},
                                          !.last_match_id = match_id],
                  returned |-> TRUE, replaced |-> {}]

\* Mutant: on a conflict the new row keeps the shortlisted flag of the old one.
insert_match_keeping_flag(database, match_data) ==
    LET job_id == Get(match_data, "job_id", None)
        candidate_id == Get(match_data, "candidate_id", None)
    IN  IF job_id = None \/ candidate_id = None
        THEN [db |-> database, returned |-> FALSE, replaced |-> {}]
        ELSE LET match_id == database.last_match_id + 1
                 replaced == MatchRows(database, job_id, candidate_id)
                 kept == IF \E old \in replaced : old.is_shortlisted = 1 THEN 1 ELSE 0
                 row == [match_id |-> match_id,
                         job_id |-> job_id,
                         candidate_id |-> candidate_id,
                         overall_match_score |->
                             Get(match_data, "overall_match_score", RatInt(0)),
                         skill_match_score |->
                             Get(match_data, "skill_match_score", RatInt(0)),
                         is_shortlisted |-> Get(match_data, "is_shortlisted", kept)]
             IN  [db |-> [database EXCEPT !.matches = (@ \ replaced) \cup {row},
                                          !.last_match_id = match_id],
                  returned |-> TRUE, replaced |-> replaced]

\* insert_match: INSERT OR REPLACE INTO matches.  job_id and candidate_id are NOT
\* NULL without a default, so a None aborts the statement (sqlite3.IntegrityError,
\* caught: the method returns False); a row with the same (job_id, candidate_id)
\* is deleted before the new row is inserted under the next match_id.  Besides
\* the database and the value returned, the rows the statement deleted are given.
insert_match(database, match_data) ==
    LET job_id == Get(match_data, "job_id", None)
        candidate_id == Get(match_data, "candidate_id", None)
    IN  IF job_id = None \/ candidate_id = None
        THEN [db |-> database, returned |-> FALSE, replaced |-> {}]
        ELSE LET match_id == database.last_match_id + 1
                 replaced == MatchRows(database, job_id, candidate_id)
                 row == [match_id |-> match_id,
                         job_id |-> job_id,
                         candidate_id |-> candidate_id,
                         overall_match_score |->
                             Get(match_data, "overall_match_score", RatInt(0)),
                         skill_match_score |->
                             Get(match_data, "skill_match_score", RatInt(0)),
                         is_shortlisted |-> Get(match_data, "is_shortlisted", 0)]
             IN  [db |-> [database EXCEPT !.matches = (@ \ replaced) \cup {row},
                                          !.last_match_id = match_id],
                  returned |-> TRUE, replaced |-> replaced]

\* update_shortlist_status: UPDATE matches SET is_shortlisted = ? WHERE job_id = ?
\* AND candidate_id = ?.
update_shortlist_status(database, job_id, candidate_id, is_shortlisted) ==
    LET flag == IF is_shortlisted THEN 1 ELSE 0
        updated(row) ==
            IF row.job_id = job_id /\ row.candidate_id = candidate_id
            THEN [row EXCEPT !.is_shortlisted = flag] ELSE row
    IN  [db |-> [database EXCEPT !.matches = {updated(row) : row \in @}],
         returned |-> TRUE]

\* The most rows ever inserted into the matches table.
MaxInserts == 2

StoredJobIds == {"JD-1234", "JD-9999"}

StoredCandidateIds == {"C-5678", "C-5679"}

\* The dicts handed to insert_match: a MatchResult's to_dict() with job_id and
\* candidate_id set as POST /match/ sets them (no is_shortlisted key), the same
\* with the key, one without score keys, and one whose job_id is None.
MatchDataPool ==
    [job_id : {"JD-1234"}, candidate_id : StoredCandidateIds,
     overall_match_score : {RatInt(60), RatInt(85)},
     skill_match_score : {RatInt(50)}]
    \cup [job_id : {"JD-9999"}, candidate_id : {"C-5678"},
          overall_match_score : {RatInt(85)}, skill_match_score : {RatInt(50)}]
    \cup [job_id : {"JD-1234"}, candidate_id : {"C-5678"},
          overall_match_score : {RatInt(85)}, skill_match_score : {RatInt(50)},
          is_shortlisted : {1}]
    \cup [job_id : {"JD-1234"}, candidate_id : {"C-5678"}]
    \cup [job_id : {None}, candidate_id : {"C-5678"},
          overall_match_score : {RatInt(85)}, skill_match_score : {RatInt(50)}]

CallInsertMatch ==
    /\ db.last_match_id < MaxInserts
    /\ \E match_data \in MatchDataPool :
          LET done == insert_match(db, match_data)
          IN  /\ db' = done.db
              /\ call' = [op |-> "insert_match", match_data |-> match_data]
              /\ ret' = [returned |-> done.returned, replaced |-> done.replaced]
    /\ UNCHANGED <<matcherVars, batch, session>>

CallUpdateShortlistStatus ==
    /\ \E job_id \in StoredJobIds, candidate_id \in StoredCandidateIds,
          is_shortlisted \in BOOLEAN :
          LET done == update_shortlist_status(db, job_id, candidate_id, is_shortlisted)
          IN  /\ db' = done.db
              /\ call' = [op |-> "update_shortlist_status", job_id |-> job_id,
                          candidate_id |-> candidate_id,
                          is_shortlisted |-> is_shortlisted]
              /\ ret' = [returned |-> done.returned]
    /\ UNCHANGED <<matcherVars, batch, session>>

NextStorage == CallInsertMatch \/ CallUpdateShortlistStatus

SpecStorage == Init /\ [][NextStorage]_vars

\* The pairs for which the matches table holds a row.
MatchedPairs == {<<row.job_id, row.candidate_id>> : row \in db.matches}

\* The scores the table holds for each pair.
StoredScores ==
    {<<row.job_id, row.candidate_id, row.overall_match_score, row.skill_match_score>> :
        row \in db.matches}

\* C22: the matches table never holds two rows for one (job_id, candidate_id), and
\* the row of a pair carries the scores of the last insert_match for the pair: an
\* insert replaces the scores of its own pair by those of its dict and leaves the
\* scores of every other pair alone, and nothing else changes a row's scores.
C22_OneRowPerPairLatestScores ==
    /\ [](Cardinality(MatchedPairs) = Cardinality(db.matches))
    /\ [][IF call'.op = "insert_match" /\ ret'.returned /\ db' # db
          THEN LET d == call'.match_data
                   mine(t) == t[1] = d.job_id /\ t[2] = d.candidate_id
               IN  /\ {t \in StoredScores' : mine(t)} =
                          {<<d.job_id, d.candidate_id,
                             IF "overall_match_score" \in DOMAIN d
                             THEN d.overall_match_score ELSE RatInt(0),
                             IF "skill_match_score" \in DOMAIN d
                             THEN d.skill_match_score ELSE RatInt(0)>>}
                   /\ {t \in StoredScores' : ~mine(t)} = {t \in StoredScores : ~mine(t)}
          ELSE StoredScores' = StoredScores]_vars

\* C22 witness: a pair matched at 60 and matched again at 85 has one row, at 85.
C22_Witness ==
    /\ call.op = "insert_match"
    /\ db.last_match_id = 2
    /\ Cardinality(db.matches) = 1
    /\ \E old \in ret.replaced : old.overall_match_score = RatInt(60)
    /\ \E row \in db.matches :
           /\ row.match_id = 2
           /\ row.overall_match_score = RatInt(85)
           /\ call.match_data.overall_match_score = RatInt(85)

\* C26: an insert_match whose dict has no is_shortlisted key, for a pair whose row
\* is shortlisted, leaves the row of the pair not shortlisted.
C26_RematchClearsShortlisted ==
    [][(/\ call'.op = "insert_match"
        /\ db' # db
        /\ "is_shortlisted" \notin DOMAIN call'.match_data
        /\ \E row \in db.matches :
               /\ row.job_id = call'.match_data.job_id
               /\ row.candidate_id = call'.match_data.candidate_id
               /\ row.is_shortlisted = 1)
       => \A row \in db'.matches :
              (/\ row.job_id = call'.match_data.job_id
               /\ row.candidate_id = call'.match_data.candidate_id)
              => row.is_shortlisted = 0]_vars

\* C26 witness: an insert_match without the key replaced the shortlisted row 1 of
\* its pair, and the pair's only row is now row 2, not shortlisted.
C26_Witness ==
    /\ call.op = "insert_match"
    /\ "is_shortlisted" \notin DOMAIN call.match_data
    /\ "overall_match_score" \in DOMAIN call.match_data
    /\ \E old \in ret.replaced : old.match_id = 1 /\ old.is_shortlisted = 1
    /\ db.last_match_id = 2
    /\ db.matches = {[match_id |-> 2, job_id |-> call.match_data.job_id,
                      candidate_id |-> call.match_data.candidate_id,
                      overall_match_score |-> call.match_data.overall_match_score,
                      skill_match_score |-> RatInt(50), is_shortlisted |-> 0]}

(***************************************************************************)
(* The API: api/main.py, the handlers over the database and the agents    *)
(***************************************************************************)
\* An exception raised inside a handler, with the text str() gives for it.
Exception(type, message) == [type |-> type, message |-> message]

IsException(value) ==
    value.type \in {"AttributeError", "TypeError", "ValidationError", "HTTPException"}

\* Reading an attribute an object of the class does not have.
AttributeError(class_name, attribute) ==
    Exception("AttributeError", <<class_name, "object has no attribute", attribute>>)

\* str() of HTTPException(status_code=404, detail="Job not found"): the empty
\* string where the class keeps Exception's __str__, "404: Job not found" where
\* it defines its own.
HTTPExceptionTexts == {<<>>, <<"404: Job not found">>}

\* The orders in which a set of rows can be listed.
Orders(rows) ==
    {order \in [1..Cardinality(rows) -> rows] :
        \A i, k \in 1..Cardinality(rows) : i # k => order[i] # order[k]}

\* insert_job_description: a plain INSERT, which aborts on a job_id already stored.
insert_job_description(database, job_data) ==
    IF \E row \in database.job_descriptions : row.job_id = job_data.job_id
    THEN [db |-> database, returned |-> FALSE]
    ELSE [db |-> [database EXCEPT !.job_descriptions = @ \cup {job_data}],
          returned |-> TRUE]

\* insert_candidate: a plain INSERT, which aborts on a candidate_id already stored.
insert_candidate(database, candidate_data) ==
    IF \E row \in database.candidates : row.candidate_id = candidate_data.candidate_id
    THEN [db |-> database, returned |-> FALSE]
    ELSE [db |-> [database EXCEPT !.candidates = @ \cup {candidate_data}],
          returned |-> TRUE]

\* None where a dict is expected: what fetchone gives when no row matches.
NoRow == [type |-> "NoneType"]

\* get_job_description: the row as a dict, or None.
get_job_description(database, job_id) ==
    IF \E row \in database.job_descriptions : row.job_id = job_id
    THEN CHOOSE row \in database.job_descriptions : row.job_id = job_id
    ELSE NoRow

\* get_candidate: the row as a dict, or None.
get_candidate(database, candidate_id) ==
    IF \E row \in database.candidates : row.candidate_id = candidate_id
    THEN CHOOSE row \in database.candidates : row.candidate_id = candidate_id
    ELSE NoRow

\* get_all_candidates: ORDER BY created_at DESC, a column of one-second
\* resolution, so any order of the rows can come back.
get_all_candidates(database) == Orders(database.candidates)

\* get_matches_for_job: the job's rows that JOIN a stored candidate, as dicts,
\* ORDER BY overall_match_score DESC; rows of equal score come in any order.
get_matches_for_job(database, job_id) ==
    LET joined ==
            {[type |-> "dict", match_id |-> row.match_id, job_id |-> row.job_id,
              candidate_id |-> row.candidate_id,
              overall_match_score |-> row.overall_match_score,
              skill_match_score |-> row.skill_match_score,
              is_shortlisted |-> row.is_shortlisted] :
                row \in {m \in database.matches :
                            /\ m.job_id = job_id
                            /\ get_candidate(database, m.candidate_id) # NoRow}}
    IN  {order \in Orders(joined) :
            \A i \in 1..(Len(order) - 1) :
                RatLeq(order[i + 1].overall_match_score, order[i].overall_match_score)}

\* dict_to_job_description: a JobDescription with its JobRequirement.
dict_to_job_description(job_dict) ==
    [type |-> "JobDescription", job_id |-> job_dict.job_id, title |-> job_dict.title,
     company |-> job_dict.company,
     requirements |->
         [required_skills |-> job_dict.requirements.required_skills,
          preferred_skills |-> job_dict.requirements.preferred_skills,
          experience |-> job_dict.requirements.experience,
          education |-> job_dict.requirements.education]]

\* dict_to_candidate_profile: a CandidateProfile.
dict_to_candidate_profile(candidate_dict) ==
    [type |-> "CandidateProfile", candidate_id |-> candidate_dict.candidate_id,
     name |-> candidate_dict.name, email |-> candidate_dict.email,
     skills |-> candidate_dict.skills, experience |-> candidate_dict.experience,
     education |-> candidate_dict.education]

\* match_candidate_to_job called with objects: its first statement reads
\* job.requirements, and later candidate.skills, of whatever it was handed.
CallMatchCandidateToJob(self, job_, candidate_, outcome) ==
    IF "requirements" \notin DOMAIN job_ THEN AttributeError(job_.type, "requirements")
    ELSE IF "skills" \notin DOMAIN candidate_
    THEN AttributeError(candidate_.type, "skills")
    ELSE match_candidate_to_job(self,
             [job_id |-> job_.job_id,
              required_skills |-> job_.requirements.required_skills,
              preferred_skills |-> job_.requirements.preferred_skills,
              experience |-> job_.requirements.experience,
              education |-> job_.requirements.education],
             candidate_, outcome)

\* Binding a call's arguments to shortlist_candidates(self, match_results,
\* threshold=None): at most two positional arguments, and threshold not given
\* both by position and by keyword.
BindShortlistArguments(positional, keywords) ==
    IF Len(positional) >= 2 /\ "threshold" \in DOMAIN keywords
    THEN Exception("TypeError",
             <<"shortlist_candidates() got multiple values for argument 'threshold'">>)
    ELSE IF Len(positional) > 2 \/ Len(positional) = 0
    THEN Exception("TypeError", <<"shortlist_candidates() positional arguments">>)
    ELSE [type |-> "arguments", match_results |-> positional[1],
          threshold |-> IF Len(positional) = 2 THEN <<positional[2]>>
                        ELSE IF "threshold" \in DOMAIN keywords
                        THEN keywords.threshold ELSE <<>>]

\* shortlist_candidates called with bound arguments: it reads the attributes
\* job_id, overall_match_score and candidate_id of each result, which a dict
\* does not have.
CallShortlistCandidates(self, bound) ==
    IF IsException(bound) THEN bound
    ELSE IF \E i \in 1..Len(bound.match_results) : bound.match_results[i].type = "dict"
    THEN AttributeError("dict", "job_id")
    ELSE shortlist_candidates(self, bound.match_results, bound.threshold)

\* The agents main.py constructs when the module is loaded.
matcher == MatcherAgent(DefaultOllamaUrl)

shortlister == ShortlisterAgent(RatInt(70))

\* The responses of a handler: the returned body, or HTTPException(500, str(e)).
Ok(body) == [status |-> 200, body |-> body]

InternalServerError(detail) == [status |-> 500, detail |-> detail]

RECURSIVE MatchEach(_, _, _, _, _)
RECURSIVE StoreMatchResult(_, _, _, _, _, _)
\* The loop of match_candidates over the candidates left, with the database and
\* the results so far; it ends at the first exception.
MatchEach(candidates, job_, database, results, outcome) ==
    IF candidates = <<>> THEN [db |-> database, results |-> results, raised |-> <<>>]
    ELSE StoreMatchResult(
             CallMatchCandidateToJob(matcher, Head(candidates), job_, outcome),
             candidates, job_, database, results, outcome)

\* The rest of the loop's body once match_candidate_to_job has returned mr or
\* raised it: the match_data dict, insert_match, and the next candidate.
StoreMatchResult(mr, candidates, job_, database, results, outcome) ==
    IF IsException(mr)
    THEN [db |-> database, results |-> results, raised |-> <<mr>>]
    ELSE LET d == [job_id |-> job_.job_id,
                   candidate_id |-> Head(candidates).candidate_id,
                   overall_match_score |-> mr.overall_match_score,
                   skill_match_score |-> mr.skill_match_score]
         IN  MatchEach(Tail(candidates), job_, insert_match(database, d).db,
                 Append(results, d), outcome)

\* The end of match_candidates: the response built from the loop's results, or
\* the except clause's response.
MatchResponse(job_, looped) ==
    IF looped.raised # <<>>
    THEN [db |-> looped.db, response |-> InternalServerError(looped.raised[1].message)]
    ELSE [db |-> looped.db,
          response |-> Ok([job_title |-> job_.title, company |-> job_.company,
                           candidates_matched |-> Len(looped.results),
                           matches |-> looped.results])]

\* POST /match/: the handler with its try and except, given the order in which
\* get_all_candidates lists the rows, what requests.post gives the matcher, and
\* the text of a caught HTTPException.
match_candidates(database, match_request, all_candidates, outcome, text) ==
    LET job_dict == get_job_description(database, match_request.job_id)
    IN  IF job_dict = NoRow THEN [db |-> database, response |-> InternalServerError(text)]
        ELSE LET job_ == dict_to_job_description(job_dict)
                 ids == match_request.candidate_ids
                 named == [i \in 1..Len(ids) |-> get_candidate(database, ids[i])]
                 cdicts == IF Len(ids) > 0 THEN named ELSE all_candidates
                 found(c) == c # NoRow
                 kept == SelectSeq(cdicts, found)
                 candidates == [i \in 1..Len(kept) |-> dict_to_candidate_profile(kept[i])]
             IN  MatchResponse(job_, MatchEach(candidates, job_, database, <<>>, outcome))

RECURSIVE UpdateEach(_, _, _, _)
\* The loop of shortlist_candidates over the matches left: every match's flag is
\* set by whether its candidate is in the shortlist.
UpdateEach(matches, job_id, shortlisted_candidates, database) ==
    IF matches = <<>> THEN database
    ELSE LET candidate_id == Head(matches).candidate_id
             is_shortlisted == InList(candidate_id, shortlisted_candidates)
         IN  UpdateEach(Tail(matches), job_id, shortlisted_candidates,
                 update_shortlist_status(database, job_id, candidate_id,
                     is_shortlisted).db)

\* POST /shortlist/: the handler with its try and except, given the order in
\* which get_matches_for_job lists the rows and the text of a caught
\* HTTPException.
shortlist_candidates_route(database, shortlist_request, matches, text) ==
    LET job_dict == get_job_description(database, shortlist_request.job_id)
    IN  IF job_dict = NoRow THEN [db |-> database, response |-> InternalServerError(text)]
        ELSE IF matches = <<>>
        THEN [db |-> database,
              response |-> Ok([job_title |-> job_dict.title, company |-> job_dict.company,
                               threshold_score |-> shortlist_request.threshold,
                               total_candidates |-> 0, shortlisted_count |-> 0,
                               shortlisted_candidates |-> <<>>])]
        ELSE LET job_ == dict_to_job_description(job_dict)
                 cmap == {dict_to_candidate_profile(get_candidate(database,
                              matches[i].candidate_id)) : i \in 1..Len(matches)}
                 sr == CallShortlistCandidates(shortlister,
                           BindShortlistArguments(<<job_, matches, cmap>>,
                               [threshold |-> shortlist_request.threshold]))
             IN  IF IsException(sr)
                 THEN [db |-> database, response |-> InternalServerError(sr.message)]
                 ELSE [db |-> UpdateEach(matches, shortlist_request.job_id,
                                  sr.shortlisted_candidates, database),
                       response |-> Ok([job_title |-> job_.title, company |-> job_.company,
                                        threshold_score |-> shortlist_request.threshold,
                                        total_candidates |-> Len(matches),
                                        shortlisted_count |->
                                            Len(sr.shortlisted_candidates),
                                        shortlisted_candidates |->
                                            sr.shortlisted_candidates])]

\* POST /schedule-emails/: the response is returned before the background task
\* runs; the task reads email_scheduler.generate_email, which EmailSchedulerAgent
\* does not have, so it stores no email.
schedule_emails(database, email_request, text) ==
    LET job_dict == get_job_description(database, email_request.job_id)
    IN  IF job_dict = NoRow THEN [db |-> database, response |-> InternalServerError(text)]
        ELSE LET job_ == dict_to_job_description(job_dict)
                 ids == email_request.candidate_ids
                 stored(i) == get_candidate(database, ids[i]) # NoRow
             IN  [db |-> database,
                  response |-> Ok([message |-> "Email scheduling started",
                                   job_title |-> job_.title, company |-> job_.company,
                                   candidates |-> Cardinality({i \in 1..Len(ids) : stored(i)}),
                                   status |-> "processing"])]

\* GET /jobs/{job_id}
get_job(database, job_id, text) ==
    LET job_dict == get_job_description(database, job_id)
    IN  IF job_dict = NoRow THEN [db |-> database, response |-> InternalServerError(text)]
        ELSE [db |-> database, response |-> Ok(job_dict)]

\* DELETE /jobs/{job_id}: for a stored job the handler reads
\* db.delete_job_description, which DatabaseManager does not have.
delete_job(database, job_id, text) ==
    LET job_dict == get_job_description(database, job_id)
    IN  IF job_dict = NoRow THEN [db |-> database, response |-> InternalServerError(text)]
        ELSE [db |-> database,
              response |-> InternalServerError(
                  AttributeError("DatabaseManager", "delete_job_description").message)]

\* The rows stored and the requests made.
JobRow_JD1234 ==
    [job_id |-> "JD-1234", title |-> "Software Engineer", company |-> "TechCorp",
     requirements |->
         [required_skills |-> BatchJob.required_skills,
          preferred_skills |-> BatchJob.preferred_skills,
          experience |-> BatchJob.experience, education |-> BatchJob.education]]

CandidateRow_C5678 ==
    [candidate_id |-> "C-5678", name |-> "John Doe", email |-> "john.doe@example.com",
     skills |-> Cand_C5678.skills, experience |-> Cand_C5678.experience,
     education |-> Cand_C5678.education]

CandidateRow_C5679 ==
    [candidate_id |-> "C-5679", name |-> "Jane Roe", email |-> "jane.roe@example.com",
     skills |-> Cand_C5679.skills, experience |-> Cand_C5679.experience,
     education |-> Cand_C5679.education]

CandidateRows == {CandidateRow_C5678, CandidateRow_C5679}

RequestJobIds == {"JD-1234", "JD-9999"}

\* candidate_ids of a request; <<>> stands for a list left out or empty.
RequestCandidateIds == {<<>>, <<"C-5678">>, <<"C-5678", "C-5679">>}

\* threshold of a ShortlistRequest; 70.0 when left out.
RequestThresholds == {<<RatInt(70)>>, <<RatInt(85)>>}

\* POST /parse-jd/ and POST /upload-jd/ store the parsed job description.
StoreJobDescription ==
    /\ LET done == insert_job_description(db, JobRow_JD1234)
       IN  /\ db' = done.db
           /\ call' = [op |-> "insert_job_description", job_id |-> JobRow_JD1234.job_id]
           /\ ret' = [returned |-> done.returned]
    /\ UNCHANGED <<matcherVars, batch, session>>

\* POST /parse-resume/ stores the parsed candidate.
StoreCandidate ==
    /\ \E candidate_data \in CandidateRows :
           LET done == insert_candidate(db, candidate_data)
           IN  /\ db' = done.db
               /\ call' = [op |-> "insert_candidate",
                           candidate_id |-> candidate_data.candidate_id]
               /\ ret' = [returned |-> done.returned]
    /\ UNCHANGED <<matcherVars, batch, session>>

PostMatch ==
    /\ \E job_id \in RequestJobIds, candidate_ids \in RequestCandidateIds,
          all_candidates \in get_all_candidates(db), outcome \in SessionOutcomes,
          text \in HTTPExceptionTexts :
           \E done \in {match_candidates(db, [job_id |-> job_id,
                                                candidate_ids |-> candidate_ids],
                              all_candidates, outcome, text)} :
               /\ db' = done.db
               /\ call' = [op |-> "POST /match/",
                           request |-> [job_id |-> job_id,
                                        candidate_ids |-> candidate_ids],
                           before |-> db]
               /\ ret' = done.response
    /\ UNCHANGED <<matcherVars, batch, session>>

PostShortlist ==
    /\ \E job_id \in RequestJobIds, threshold \in RequestThresholds,
          text \in HTTPExceptionTexts :
           \E matches \in get_matches_for_job(db, job_id) :
               LET shortlist_request == [job_id |-> job_id, threshold |-> threshold]
                   done == shortlist_candidates_route(db, shortlist_request, matches, text)
               IN  /\ db' = done.db
                   /\ call' = [op |-> "POST /shortlist/", request |-> shortlist_request,
                               before |-> db]
                   /\ ret' = done.response
    /\ UNCHANGED <<matcherVars, batch, session>>

PostScheduleEmails ==
    /\ \E job_id \in RequestJobIds, text \in HTTPExceptionTexts :
           LET email_request == [job_id |-> job_id, candidate_ids |-> <<"C-5678">>]
               done == schedule_emails(db, email_request, text)
           IN  /\ db' = done.db
               /\ call' = [op |-> "POST /schedule-emails/", request |-> email_request,
                           before |-> db]
               /\ ret' = done.response
    /\ UNCHANGED <<matcherVars, batch, session>>

GetJob ==
    /\ \E job_id \in RequestJobIds, text \in HTTPExceptionTexts :
           LET done == get_job(db, job_id, text)
           IN  /\ db' = done.db
               /\ call' = [op |-> "GET /jobs/{job_id}", request |-> [job_id |-> job_id],
                           before |-> db]
               /\ ret' = done.response
    /\ UNCHANGED <<matcherVars, batch, session>>

DeleteJob ==
    /\ \E job_id \in RequestJobIds, text \in HTTPExceptionTexts :
           LET done == delete_job(db, job_id, text)
           IN  /\ db' = done.db
               /\ call' = [op |-> "DELETE /jobs/{job_id}", request |-> [job_id |-> job_id],
                           before |-> db]
               /\ ret' = done.response
    /\ UNCHANGED <<matcherVars, batch, session>>

NextApi ==
    \/ StoreJobDescription
    \/ StoreCandidate
    \/ CallInsertMatch
    \/ PostMatch
    \/ PostShortlist
    \/ PostScheduleEmails
    \/ GetJob
    \/ DeleteJob

SpecApi == Init /\ [][NextApi]_vars

\* The job a request names was stored when the request was made.
JobWasStored == get_job_description(call.before, call.request.job_id) # NoRow

\* The candidates POST /match/ is asked to match: those named, or all stored
\* when none is named.
RequestedCandidateIds ==
    IF Len(call.request.candidate_ids) > 0
    THEN {call.request.candidate_ids[i] : i \in 1..Len(call.request.candidate_ids)}
    ELSE {row.candidate_id : row \in call.before.candidates}

\* C23: POST /match/ for a stored job and a non-empty set of stored candidates
\* responds 200 with candidates_matched equal to the number of candidates and one
\* entry per candidate in matches, and leaves one match row per candidate under
\* that job.
C23_MatchStoresOnePerCandidate ==
    (/\ call.op = "POST /match/"
     /\ JobWasStored
     /\ RequestedCandidateIds # {}
     /\ \A cid \in RequestedCandidateIds : get_candidate(call.before, cid) # NoRow)
        => /\ ret.status = 200
           /\ ret.body.candidates_matched = Cardinality(RequestedCandidateIds)
           /\ Len(ret.body.matches) = Cardinality(RequestedCandidateIds)
           /\ \A cid \in RequestedCandidateIds :
                  /\ Cardinality(MatchRows(db, call.request.job_id, cid)) = 1
                  /\ \E i \in 1..Len(ret.body.matches) :
                         ret.body.matches[i].candidate_id = cid

\* The match rows POST /shortlist/ found for the job of the request.
MatchesOfRequest == {row \in db.matches : row.job_id = call.request.job_id}

\* C24: POST /shortlist/ for a stored job with at least one stored match (of a
\* stored candidate) succeeds; afterwards every match row of the job has is_shortlisted 1 if its
\* overall_match_score >= the requested threshold and 0 otherwise, and
\* shortlisted_candidates lists exactly the candidates whose flag is 1.
C24_ShortlistSetsFlags ==
    (/\ call.op = "POST /shortlist/"
     /\ JobWasStored
     /\ \E row \in call.before.matches :
            /\ row.job_id = call.request.job_id
            /\ get_candidate(call.before, row.candidate_id) # NoRow)
        => /\ ret.status = 200
           /\ \A row \in MatchesOfRequest :
                  row.is_shortlisted =
                      IF RatLeq(call.request.threshold[1], row.overall_match_score)
                      THEN 1 ELSE 0
           /\ {ret.body.shortlisted_candidates[i] :
                   i \in 1..Len(ret.body.shortlisted_candidates)}
                  = {row.candidate_id : row \in {m \in MatchesOfRequest :
                                                     m.is_shortlisted = 1}}

\* The routes that look the job of the request up before anything else.
JobRoutes ==
    {"POST /match/", "POST /shortlist/", "POST /schedule-emails/", "GET /jobs/{job_id}",
     "DELETE /jobs/{job_id}"}

\* C25: a request that names a job_id not in storage is answered with status 404
\* and detail "Job not found", and changes no stored data.
C25_MissingJobIs404 ==
    (call.op \in JobRoutes /\ ~JobWasStored)
        => /\ ret.status = 404
           /\ ret.detail = <<"Job not found">>
           /\ db = call.before

\* The skills of the pool that normalize to no token, read by hand: "The ." is a
\* stopword and a punctuation mark, and the empty string has no word.
NormalizesToNothing(skill) == skill \in {Skill_the_dot, Skill_empty}

\* C27: containment over empty token sets is vacuously true: when some candidate
\* skill normalizes to no token, every job skill is reported matched and the score
\* is 100; and a job skill that normalizes to no token is matched whenever the
\* candidate has at least one skill.
C27_EmptyTokensMatchEverything ==
    (call.op = "_calculate_skill_match") =>
        /\ (\E k \in 1..Len(call.candidate_skills) :
                NormalizesToNothing(call.candidate_skills[k]))
               => /\ ret.score = RatInt(100)
                  /\ (call.job_skills # <<>> => ret.matched = call.job_skills)
        /\ (call.candidate_skills # <<>>)
               => \A n \in 1..Len(call.job_skills) :
                      NormalizesToNothing(call.job_skills[n])
                          => InList(call.job_skills[n], ret.matched)

\* C27 witness: a candidate whose skills are "database" and "The ." is matched on
\* "python programming" and "REST databases" alike, at score 100.
C27_Witness ==
    /\ call.op = "_calculate_skill_match"
    /\ call.job_skills = <<Skill_python_programming, Skill_REST_databases>>
    /\ call.candidate_skills = <<Skill_database, Skill_the_dot>>
    /\ ret.score = RatInt(100)
    /\ ret.matched = <<Skill_python_programming, Skill_REST_databases>>

\* An entry without a stated duration, with a start year, whose end_date holds no
\* year and does not say "present": it is empty or free text.
OpenEndedEntry(exp) ==
    /\ DurationYearsByHand(exp.duration) = <<>>
    /\ DateYearByHand(exp.start_date) # <<>>
    /\ DateYearByHand(exp.end_date) = <<>>
    /\ ~OngoingEntry(exp)

\* An entry without a stated duration whose end year precedes its start year.
ReversedEntry(exp) ==
    /\ DurationYearsByHand(exp.duration) = <<>>
    /\ DateYearByHand(exp.start_date) # <<>>
    /\ DateYearByHand(exp.end_date) # <<>>
    /\ DateYearByHand(exp.end_date)[1] < DateYearByHand(exp.start_date)[1]

\* The entry with its end_date replaced by "Present".
AsPresentEntry(exp) == Entry(exp.duration, exp.start_date, <<"P", "r", "e", "s", "e", "n", "t">>)

\* The list without its n-th entry.
WithoutEntry(entries, n) == SubSeq(entries, 1, n - 1) \o SubSeq(entries, n + 1, Len(entries))

\* C29: an entry with no parseable duration, a 4-digit start year and an end_date
\* without a 4-digit year (empty or free text) is counted as still ongoing: it adds
\* substitute end year - start year, exactly like a "Present" entry; and an entry
\* whose end year precedes its start year adds a negative amount, which lowers the
\* candidate's total.
C29_OpenEndedOngoingReversedNegative ==
    (call.op = "_calculate_experience_match" /\ ret.total_candidate_years # Unset) =>
        LET entries == call.candidate_experiences
            total == ret.total_candidate_years[1]
        IN  \A n \in 1..Len(entries) :
                LET others == TotalCandidateYears(WithoutEntry(entries, n))
                IN  /\ OpenEndedEntry(entries[n]) =>
                        /\ total - others
                               = SubstituteEndYear - DateYearByHand(entries[n].start_date)[1]
                        /\ total
                               = TotalCandidateYears(
                                     [entries EXCEPT ![n] = AsPresentEntry(entries[n])])
                    /\ ReversedEntry(entries[n]) =>
                        /\ total - others
                               = DateYearByHand(entries[n].end_date)[1]
                                   - DateYearByHand(entries[n].start_date)[1]
                        /\ total < others

\* C29 witness: "2020" to "ongoing" adds 3, "2021" to "06/2016" adds -5, and the
\* total is -2.
C29_Witness ==
    /\ call.op = "_calculate_experience_match"
    /\ call.candidate_experiences = <<Exp_2020_ongoing, Exp_2021_2016>>
    /\ ret.total_candidate_years = <<-2>>

\* No degree of the candidate names a level of the hierarchy: the list is empty or
\* every degree field is without a label.
NoRecognisedDegree(entries) == \A i \in 1..Len(entries) : LevelByHand(entries[i].degree) = 0

\* C30: a candidate with no recognised degree has level 0 and is scored by the
\* same distance bands as any other: 80 against a high-school requirement, 60
\* against an associate requirement, 40 against bachelor or higher; and the
\* education score is always one of 40, 60, 80, 100.
C30_UnrecognisedDegreeIsLevelZero ==
    (call.op = "_calculate_education_match") =>
        /\ ret.returned \in {RatInt(40), RatInt(60), RatInt(80), RatInt(100)}
        /\ (call.required_education # <<>> /\ NoRecognisedDegree(call.candidate_education))
               => LET required == call.required_education
                      named == Max({0} \cup {LevelByHand(required[i]) :
                                                i \in 1..Len(required)})
                  IN  ret.returned =
                          CASE named = 1 -> RatInt(80)
                            [] named = 2 -> RatInt(60)
                            [] OTHER -> RatInt(40)

\* C30 witness: "High School" required, a candidate whose only degree is
\* "Diploma", score 80.
C30_Witness ==
    /\ call.op = "_calculate_education_match"
    /\ call.required_education = <<Edu_High_School>>
    /\ call.candidate_education = <<Deg_Diploma>>
    /\ ret.returned = RatInt(80)

\* The thresholds the threshold of a call is compared with.
OtherThresholds ==
    {RatInt(0), Rat(254, 5), RatInt(60), RatInt(70), RatInt(72), RatInt(95)}

\* The candidates the batch of the call has shortlisted at threshold t.
ShortlistedAt(t) ==
    LET at_t == shortlist_candidates(call.self, call.match_results, <<t>>)
    IN  {at_t.shortlisted_candidates[i] : i \in 1..Len(at_t.shortlisted_candidates)}

ShortlistedCountAt(t) ==
    shortlist_candidates(call.self, call.match_results, <<t>>)
        .shortlist_stats.shortlisted_count

\* For the batch of the call, the shortlist at its threshold and the shortlist
\* at any other threshold are ordered as the thresholds are.
MonotoneInThreshold ==
    \A t \in OtherThresholds :
        LET here == {ret.returned.shortlisted_candidates[i] :
                        i \in 1..Len(ret.returned.shortlisted_candidates)}
            count == ret.returned.shortlist_stats.shortlisted_count
        IN  /\ RatLeq(ThresholdInEffect, t) =>
                   /\ ShortlistedAt(t) \subseteq here
                   /\ ShortlistedCountAt(t) <= count
            /\ RatLeq(t, ThresholdInEffect) =>
                   /\ here \subseteq ShortlistedAt(t)
                   /\ count <= ShortlistedCountAt(t)

\* C28: for a fixed batch the shortlist is monotone in the threshold: for
\* t1 <= t2 every candidate shortlisted at t2 is shortlisted at t1 and
\* shortlisted_count at t2 <= shortlisted_count at t1; and whenever a bucket is
\* non-empty, avg_shortlisted_score >= threshold and avg_rejected_score < threshold.
C28_MonotoneAveragesBounded ==
    (call.op = "shortlist_candidates") =>
        /\ MonotoneInThreshold
        /\ (AtOrAbove # {}) =>
               ~float_less(ret.floats.avg_shortlisted_score, ret.floats.threshold)
        /\ (Below # {}) =>
               float_less(ret.floats.avg_rejected_score, ret.floats.threshold)

\* C28 as amended: the shortlist is monotone in the threshold as above, every
\* shortlisted score is >= threshold and every rejected score is < threshold, and
\* so the exact mean of a non-empty bucket is on its side of the threshold; of
\* the averages reported, which are rounded, nothing is claimed.
C28_MonotoneScoresBounded ==
    (call.op = "shortlist_candidates") =>
        /\ MonotoneInThreshold
        /\ \A i \in 1..Len(call.match_results) :
               LET result_ == call.match_results[i]
                   score == binary64(result_.overall_match_score)
               IN  /\ InList(result_.candidate_id, ret.returned.shortlisted_candidates)
                       => ~float_less(score, ret.floats.threshold)
                   /\ InList(result_.candidate_id, ret.returned.rejected_candidates)
                       => float_less(score, ret.floats.threshold)
        /\ (AtOrAbove # {}) =>
               RatLeq(ThresholdInEffect, ret.returned.shortlist_stats.avg_shortlisted_score)
        /\ (Below # {}) =>
               ~RatLeq(ThresholdInEffect, ret.returned.shortlist_stats.avg_rejected_score)

\* C28 witness: the example batch at threshold 72.0 has three candidates
\* shortlisted, of whom none is left at 95.0, and averages on their sides of 72.
C28_Witness ==
    /\ call.op = "shortlist_candidates"
    /\ call.match_results = ExampleBatch
    /\ call.threshold = <<RatInt(72)>>
    /\ ret.returned.shortlist_stats.shortlisted_count = 3
    /\ ShortlistedCountAt(RatInt(95)) = 0
    /\ float_less(ret.floats.threshold, ret.floats.avg_shortlisted_score)
    /\ float_less(ret.floats.avg_rejected_score, ret.floats.threshold)

================================================================
